---------------------------- MODULE Spec2Model ----------------------------
(***************************************************************************)
(* Model of specify_cli/__init__.py: the StepTracker ledger and its        *)
(* refresh callback, the project classifier, and the template acquisition  *)
(* pipeline (download_template_from_github, copy_local_templates,          *)
(* download_and_extract_template, ensure_executable_scripts, init).        *)
(***************************************************************************)
EXTENDS Integers, Sequences, FiniteSets, TLC

VARIABLES
    steps,      \* StepTracker.steps: sequence of [key, label, status, detail]
    lastCall,   \* the tracker call made by the last step of the tracker driver
    ncalls,     \* number of tracker calls made by the tracker driver
    cin,        \* arguments and directory facts given to classify_project_state
    verdict,    \* what classify_project_state returned (or raised)
    pc,         \* where the running command or call stands
    here,       \* is_current_dir: install into the current directory
    archive,    \* the members of the release asset (a tree of relative paths)
    fs,         \* the files and directories under the working directory
    fs0,        \* fs as it was before the call
    scratch,    \* the tempfile.TemporaryDirectory of a merge install
    items,      \* entries of source_dir the merge loop has still to copy
    scanned,    \* what _scan_project_state returned (NoScan before it ran)
    scripts,    \* the entries under <project>/.specify/scripts, in rglob order
    scripts0,   \* scripts as they were before ensure_executable_scripts
    chmod,      \* the platform and the outcome of ensure_executable_scripts
    refresh,    \* StepTracker._refresh_cb and what the callback has been shown
    local_templates, \* init was given --local-templates
    console,    \* the panels printed on the console, in order
    exc         \* the exception that ended the call on line 1434, if any

fsvars == <<pc, here, archive, fs, fs0, scratch, items>>
xvars == <<scanned, scripts, scripts0, chmod>>
ovars == <<refresh, local_templates, console, exc>>
vars == <<steps, lastCall, ncalls, cin, verdict, pc, here, archive, fs, fs0, scratch, items,
          scanned, scripts, scripts0, chmod, refresh, local_templates, console, exc>>

(***************************************************************************)
(* Bounds of the model.                                                    *)
(***************************************************************************)
MaxCalls == 4

(***************************************************************************)
(* StepTracker (lines 352-399).                                            *)
(***************************************************************************)
Statuses == {"pending", "running", "done", "error", "skipped"}

NewTracker == << >>

Step(key, label, status, detail) ==
    [key |-> key, label |-> label, status |-> status, detail |-> detail]

StepKeys(s) == {s[i].key : i \in 1..Len(s)}

add_always(s, key, label) == Append(s, Step(key, label, "pending", ""))

add(s, key, label) ==
    IF key \notin StepKeys(s)
    THEN Append(s, Step(key, label, "pending", ""))
    ELSE s

update_erasing(s, key, status, detail) ==
    IF key \in StepKeys(s)
    THEN LET i == CHOOSE j \in 1..Len(s) :
                    /\ s[j].key = key
                    /\ \A m \in 1..(j - 1) : s[m].key # key
         IN  [s EXCEPT ![i] = [@ EXCEPT !.status = status, !.detail = detail]]
    ELSE Append(s, Step(key, key, status, detail))

update_dropping(s, key, status, detail) ==
    IF key \in StepKeys(s)
    THEN LET i == CHOOSE j \in 1..Len(s) :
                    /\ s[j].key = key
                    /\ \A m \in 1..(j - 1) : s[m].key # key
         IN  [s EXCEPT ![i] = [@ EXCEPT !.status = status,
                                        !.detail = IF detail # "" THEN detail ELSE @]]
    ELSE s

_update(s, key, status, detail) ==
    IF key \in StepKeys(s)
    THEN LET i == CHOOSE j \in 1..Len(s) :
                    /\ s[j].key = key
                    /\ \A m \in 1..(j - 1) : s[m].key # key
         IN  [s EXCEPT ![i] = [@ EXCEPT !.status = status,
                                        !.detail = IF detail # "" THEN detail ELSE @]]
    ELSE Append(s, Step(key, key, status, detail))

start(s, key, detail) == _update(s, key, "running", detail)

complete(s, key, detail) == _update(s, key, "done", detail)

error(s, key, detail) == _update(s, key, "error", detail)

skip(s, key, detail) == _update(s, key, "skipped", detail)

\* line 360: no callback ("none"; an attached one returns, "ok", or raises
\* an Exception, "raises"); nothing has been refreshed, no call has failed
NoRefresh == [cb |-> "none", calls |-> 0, seen |-> << >>, escaped |-> FALSE]

\* lines 362-363
attach_refresh(r, cb) == [r EXCEPT !.cb = cb]

refresh_unprotected(r, s) ==
    IF r.cb # "none"
    THEN [r EXCEPT !.calls = @ + 1, !.seen = s, !.escaped = (r.cb = "raises")]
    ELSE r

\* lines 394-399, called with the ledger as it stands: the callback runs and
\* sees that ledger; an Exception it raises is caught and dropped
_maybe_refresh(r, s) ==
    IF r.cb # "none"
    THEN [r EXCEPT !.calls = @ + 1, !.seen = s, !.escaped = FALSE]
    ELSE r

(***************************************************************************)
(* Project classifier (lines 105-285).  Confidence is kept in thousandths  *)
(* (0.95 is 950); confidence_score is round(confidence * 100).             *)
(***************************************************************************)
MAX_CLASSIFICATION_SCAN == 800

VALID_PROJECT_TYPES == {"auto", "greenfield", "brownfield", "ongoing"}

\* str.lower() on the override strings the model passes in
lower(s) ==
    CASE s = "AUTO" -> "auto"
      [] s = "Brownfield" -> "brownfield"
      [] s = "ONGOING" -> "ongoing"
      [] s = "GreenField" -> "greenfield"
      [] s = "Legacy" -> "legacy"
      [] OTHER -> s

override_not_lowered(override) == IF override = "" THEN "auto" ELSE override

\* (override or "auto").lower()
override_normalized(override) == lower(IF override = "" THEN "auto" ELSE override)

Min(a, b) == IF a <= b THEN a ELSE b

\* Python's round() of n/d to an integer: ties go to the even neighbour
round(n, d) ==
    LET q == n \div d
        r == n % d
    IN  IF 2 * r < d THEN q
        ELSE IF 2 * r > d THEN q + 1
        ELSE IF q % 2 = 0 THEN q ELSE q + 1

auto_type_baseline_sticks(scan) ==
    LET baseline == IF scan.has_specify \/ scan.has_specs_dir
                    THEN "ongoing" ELSE "greenfield"
    IN  IF baseline = "ongoing" THEN baseline
        ELSE IF \/ scan.git_commits >= 20
                \/ Len(scan.config_hits) >= 2
                \/ scan.file_count >= 120
        THEN "brownfield"
        ELSE IF \/ scan.git_commits >= 1
                \/ Len(scan.config_hits) >= 1
                \/ scan.file_count >= 12
             THEN "ongoing"
             ELSE baseline

auto_type(scan) ==
    LET baseline == IF scan.has_specify \/ scan.has_specs_dir
                    THEN "ongoing" ELSE "greenfield"
    IN  IF \/ scan.git_commits >= 20
           \/ Len(scan.config_hits) >= 2
           \/ scan.file_count >= 120
        THEN "brownfield"
        ELSE IF /\ baseline # "ongoing"
                /\ \/ scan.git_commits >= 1
                   \/ Len(scan.config_hits) >= 1
                   \/ scan.file_count >= 12
             THEN "ongoing"
             ELSE baseline

confidence_inverted_greenfield(scan, type) ==
    CASE type = "greenfield" ->
            IF scan.file_count # 0 THEN 950 ELSE 800
      [] type = "ongoing" ->
            Min(650 + 50 * Min(scan.git_commits, 4)
                    + 50 * Min(Len(scan.config_hits), 2)
                    + (IF scan.has_specify THEN 100 ELSE 0),
                900)
      [] type = "brownfield" ->
            Min(700 + (IF scan.git_commits >= 20 THEN 100 ELSE 0)
                    + (IF Len(scan.config_hits) >= 2 THEN 100 ELSE 0)
                    + (IF scan.file_count >= 120 THEN 50 ELSE 0),
                980)
      [] OTHER -> 750

confidence_uncapped_commits(scan, type) ==
    CASE type = "greenfield" ->
            IF scan.file_count = 0 THEN 950 ELSE 800
      [] type = "ongoing" ->
            Min(650 + 50 * scan.git_commits
                    + 50 * Min(Len(scan.config_hits), 2)
                    + (IF scan.has_specify THEN 100 ELSE 0),
                900)
      [] type = "brownfield" ->
            Min(700 + (IF scan.git_commits >= 20 THEN 100 ELSE 0)
                    + (IF Len(scan.config_hits) >= 2 THEN 100 ELSE 0)
                    + (IF scan.file_count >= 120 THEN 50 ELSE 0),
                980)
      [] OTHER -> 750

confidence_bare_brownfield(scan, type) ==
    CASE type = "greenfield" ->
            IF scan.file_count = 0 THEN 950 ELSE 800
      [] type = "ongoing" ->
            Min(650 + 50 * Min(scan.git_commits, 4)
                    + 50 * Min(Len(scan.config_hits), 2)
                    + (IF scan.has_specify THEN 100 ELSE 0),
                900)
      [] type = "brownfield" ->
            Min(700 + (IF scan.git_commits >= 20 THEN 100 ELSE 0)
                    + (IF Len(scan.config_hits) >= 2 THEN 100 ELSE 0),
                980)
      [] OTHER -> 750

heuristic_confidence(scan, type) ==
    CASE type = "greenfield" ->
            IF scan.file_count = 0 THEN 950 ELSE 800
      [] type = "ongoing" ->
            Min(650 + 50 * Min(scan.git_commits, 4)
                    + 50 * Min(Len(scan.config_hits), 2)
                    + (IF scan.has_specify THEN 100 ELSE 0),
                900)
      [] type = "brownfield" ->
            Min(700 + (IF scan.git_commits >= 20 THEN 100 ELSE 0)
                    + (IF Len(scan.config_hits) >= 2 THEN 100 ELSE 0)
                    + (IF scan.file_count >= 120 THEN 50 ELSE 0),
                980)
      [] OTHER -> 750

heuristic_signals(scan) ==
    <<"Files detected">>
    \o (IF scan.git_commits # 0 THEN <<"Git commits detected">> ELSE << >>)
    \o (IF scan.config_hits # << >> THEN <<"Config markers">> ELSE << >>)
    \o (IF scan.has_specify THEN <<"Existing .specify directory present">> ELSE << >>)
    \o (IF scan.has_specs_dir THEN <<"Existing specs/ directory present">> ELSE << >>)

\* the dict built at lines 166-238, before the override is looked at
detected(in) ==
    IF ~in.path_exists
    THEN [project_type |-> "greenfield",
          confidence |-> 980,
          reason |-> "target directory does not exist yet",
          stats |-> [file_count |-> 0, git_commits |-> 0, config_hits |-> << >>],
          signals |-> <<"Target directory absent: treating as new project">>,
          safeguard_required |-> FALSE,
          requires_confirmation |-> FALSE]
    ELSE LET type == auto_type(in.scan)
         IN  [project_type |-> type,
              confidence |-> heuristic_confidence(in.scan, type),
              reason |-> "heuristic analysis",
              stats |-> in.scan,
              signals |-> heuristic_signals(in.scan),
              safeguard_required |-> (type = "brownfield"),
              requires_confirmation |->
                  (in.path_exists /\ in.scan.file_count > 0 /\ type # "greenfield")]

override_keeps_safeguard(d, ov) ==
    IF ov # "auto"
    THEN [d EXCEPT !.signals = Append(@, "Manual override requested"),
                   !.project_type = ov,
                   !.confidence = 990,
                   !.reason = "manual override",
                   !.requires_confirmation = (@ \/ ov \in {"brownfield", "ongoing"})]
    ELSE d

override_keeps_confidence(d, ov) ==
    IF ov # "auto"
    THEN [d EXCEPT !.signals = Append(@, "Manual override requested"),
                   !.project_type = ov,
                   !.reason = "manual override",
                   !.requires_confirmation = (@ \/ ov \in {"brownfield", "ongoing"}),
                   !.safeguard_required = (ov = "brownfield")]
    ELSE d

override_confidence_percent(d, ov) ==
    IF ov # "auto"
    THEN [d EXCEPT !.signals = Append(@, "Manual override requested"),
                   !.project_type = ov,
                   !.confidence = 99000,
                   !.reason = "manual override",
                   !.requires_confirmation = (@ \/ ov \in {"brownfield", "ongoing"}),
                   !.safeguard_required = (ov = "brownfield")]
    ELSE d

override_resets_confirmation(d, ov) ==
    IF ov # "auto"
    THEN [d EXCEPT !.signals = Append(@, "Manual override requested"),
                   !.project_type = ov,
                   !.confidence = 990,
                   !.reason = "manual override",
                   !.requires_confirmation = (ov \in {"brownfield", "ongoing"}),
                   !.safeguard_required = (ov = "brownfield")]
    ELSE d

\* lines 240-248
apply_override(d, ov) ==
    IF ov # "auto"
    THEN [d EXCEPT !.signals = Append(@, "Manual override requested"),
                   !.project_type = ov,
                   !.confidence = 990,
                   !.reason = "manual override",
                   !.requires_confirmation = (@ \/ ov \in {"brownfield", "ongoing"}),
                   !.safeguard_required = (ov = "brownfield")]
    ELSE d

recommendations_without_ongoing(type) ==
    CASE type = "brownfield" ->
            <<"Create a backup branch before initializing templates",
              "Document mapping between existing architecture and Spec Kit artifacts",
              "Review dependency versions to avoid template overwrites">>
      [] OTHER -> << >>

migration_recommendations(type) ==
    CASE type = "brownfield" ->
            <<"Create a backup branch before initializing templates",
              "Document mapping between existing architecture and Spec Kit artifacts",
              "Review dependency versions to avoid template overwrites">>
      [] type = "ongoing" ->
            <<"Align new artifacts with existing feature directories",
              "Verify SPECIFY_FEATURE matches current working branch">>
      [] OTHER -> << >>

warnings(type, git_commits, existing_files_count, override_applied) ==
    (IF type = "brownfield" /\ git_commits = 0
     THEN <<"Significant file volume without git history detected">> ELSE << >>)
    \o (IF type = "greenfield" /\ existing_files_count > 0
        THEN <<"Non-empty directory classified as greenfield; review before proceeding">>
        ELSE << >>)
    \o (IF override_applied THEN <<"Project type forced via --project-type">> ELSE << >>)

classify_project_state(in) ==
    LET ov == override_normalized(in.override)
    IN  IF ov \notin VALID_PROJECT_TYPES
        THEN [returned |-> FALSE, raised |-> TRUE, exc |-> "BadParameter"]
        ELSE LET d == apply_override(detected(in), ov)
                 existing == IF in.path_exists THEN d.stats.file_count ELSE 0
             IN  [returned |-> TRUE,
                  raised |-> FALSE,
                  project_type |-> d.project_type,
                  confidence |-> d.confidence,
                  reason |-> d.reason,
                  stats |-> d.stats,
                  signals |-> d.signals,
                  safeguard_required |-> d.safeguard_required,
                  requires_confirmation |-> d.requires_confirmation,
                  override_origin |-> IF ov # "auto" THEN ov ELSE "",
                  confidence_score |-> round(d.confidence * 100, 1000),
                  migration_recommendations |-> migration_recommendations(d.project_type),
                  override_applied |-> (ov # "auto"),
                  existing_files_count |-> existing,
                  warnings |-> warnings(d.project_type, d.stats.git_commits,
                                        existing, ov # "auto")]

(***************************************************************************)
(* A driver making arbitrary tracker calls.                                *)
(***************************************************************************)
DriverKeys == {"fetch", "extract"}
DriverLabels == {"Fetch latest release", "Extract template"}
DriverDetails == {"", "msg", "other"}

NoCall == [op |-> "none", key |-> "", arg |-> ""]

TrackerAdd(key, label) ==
    /\ ncalls < MaxCalls
    /\ steps' = add(steps, key, label)
    /\ refresh' = IF key \notin StepKeys(steps)
                  THEN _maybe_refresh(refresh, steps')
                  ELSE refresh
    /\ lastCall' = [op |-> "add", key |-> key, arg |-> label]
    /\ ncalls' = ncalls + 1
    /\ UNCHANGED <<cin, verdict, xvars, fsvars, local_templates, console, exc>>

\* tracker.attach_refresh(cb)
TrackerAttachRefresh(cb) ==
    /\ refresh.cb # cb
    /\ refresh' = attach_refresh(refresh, cb)
    /\ lastCall' = [op |-> "attach", key |-> "", arg |-> cb]
    /\ UNCHANGED <<steps, ncalls, cin, verdict, xvars, fsvars, local_templates, console, exc>>

TrackerStart(key, detail) ==
    /\ ncalls < MaxCalls
    /\ steps' = start(steps, key, detail)
    /\ refresh' = _maybe_refresh(refresh, steps')
    /\ lastCall' = [op |-> "running", key |-> key, arg |-> detail]
    /\ ncalls' = ncalls + 1
    /\ UNCHANGED <<cin, verdict, xvars, fsvars, local_templates, console, exc>>

TrackerComplete(key, detail) ==
    /\ ncalls < MaxCalls
    /\ steps' = complete(steps, key, detail)
    /\ refresh' = _maybe_refresh(refresh, steps')
    /\ lastCall' = [op |-> "done", key |-> key, arg |-> detail]
    /\ ncalls' = ncalls + 1
    /\ UNCHANGED <<cin, verdict, xvars, fsvars, local_templates, console, exc>>

TrackerError(key, detail) ==
    /\ ncalls < MaxCalls
    /\ steps' = error(steps, key, detail)
    /\ refresh' = _maybe_refresh(refresh, steps')
    /\ lastCall' = [op |-> "error", key |-> key, arg |-> detail]
    /\ ncalls' = ncalls + 1
    /\ UNCHANGED <<cin, verdict, xvars, fsvars, local_templates, console, exc>>

TrackerSkip(key, detail) ==
    /\ ncalls < MaxCalls
    /\ steps' = skip(steps, key, detail)
    /\ refresh' = _maybe_refresh(refresh, steps')
    /\ lastCall' = [op |-> "skipped", key |-> key, arg |-> detail]
    /\ ncalls' = ncalls + 1
    /\ UNCHANGED <<cin, verdict, xvars, fsvars, local_templates, console, exc>>

NoInput == [given |-> FALSE]
NoVerdict == [returned |-> FALSE, raised |-> FALSE]
NoDir == [exists |-> FALSE]
NoScan == [done |-> FALSE]
NoChmod == [given |-> FALSE, called |-> FALSE]
NoExc == [raised |-> FALSE]

\* neither the directory scan nor the permission pass is running
NoExtras ==
    /\ scanned = NoScan
    /\ scripts = << >>
    /\ scripts0 = << >>
    /\ chmod = NoChmod

\* the installer is not running
Idle ==
    /\ pc = "off"
    /\ here = FALSE
    /\ archive = << >>
    /\ fs = << >>
    /\ fs0 = << >>
    /\ scratch = NoDir
    /\ items = {}
    /\ refresh = NoRefresh
    /\ local_templates = FALSE
    /\ console = << >>
    /\ exc = NoExc

TrackerInit ==
    /\ steps = NewTracker
    /\ lastCall = NoCall
    /\ ncalls = 0
    /\ cin = NoInput
    /\ verdict = NoVerdict
    /\ Idle
    /\ NoExtras

TrackerNext ==
    \/ \E k \in DriverKeys, l \in DriverLabels : TrackerAdd(k, l)
    \/ \E k \in DriverKeys, d \in DriverDetails : TrackerStart(k, d)
    \/ \E k \in DriverKeys, d \in DriverDetails : TrackerComplete(k, d)
    \/ \E k \in DriverKeys, d \in DriverDetails : TrackerError(k, d)
    \/ \E k \in DriverKeys, d \in DriverDetails : TrackerSkip(k, d)
    \/ \E cb \in {"ok", "raises"} : TrackerAttachRefresh(cb)

SpecTracker == TrackerInit /\ [][TrackerNext]_vars

(***************************************************************************)
(* Calls of classify_project_state on directories of every shape.          *)
(***************************************************************************)
OverrideInputs ==
    {"auto", "AUTO", "", "greenfield", "brownfield", "Brownfield", "ongoing", "Legacy"}
FileCounts == {0, 1, 3, 12, 120, MAX_CLASSIFICATION_SCAN}
GitCommitCounts == {0, 1, 4, 5, 20, 25}
ConfigHitLists ==
    {<< >>, <<"package.json">>, <<"package.json", "Makefile">>,
     <<"package.json", "Makefile", "go.mod">>}

ScanResults ==
    {sc \in [file_count : FileCounts, git_commits : GitCommitCounts,
             config_hits : ConfigHitLists, has_specify : BOOLEAN,
             has_specs_dir : BOOLEAN] :
        Len(sc.config_hits) <= sc.file_count}

ClassifyInputs ==
    {[given |-> TRUE, override |-> o, path_exists |-> FALSE] : o \in OverrideInputs}
    \cup {[given |-> TRUE, override |-> o, path_exists |-> TRUE, scan |-> sc] :
            o \in OverrideInputs, sc \in ScanResults}

Classify ==
    /\ cin.given
    /\ verdict = NoVerdict
    /\ verdict' = classify_project_state(cin)
    /\ UNCHANGED <<steps, lastCall, ncalls, cin, xvars, fsvars, ovars>>

ClassifyInit ==
    /\ steps = NewTracker
    /\ lastCall = NoCall
    /\ ncalls = 0
    /\ cin \in ClassifyInputs
    /\ verdict = NoVerdict
    /\ Idle
    /\ NoExtras

ClassifyNext == Classify

SpecClassify == ClassifyInit /\ [][ClassifyNext]_vars

(***************************************************************************)
(* Files and directories.  A tree maps relative paths (sequences of names) *)
(* to nodes; the directory a tree is rooted at is the empty path.          *)
(***************************************************************************)
DirNode == [kind |-> "dir", data |-> << >>]
FileNode(d) == [kind |-> "file", data |-> d]
EmptyTree == << >>

IsPrefix(p, q) == Len(p) <= Len(q) /\ SubSeq(q, 1, Len(p)) = p
Drop(q, n) == SubSeq(q, n + 1, Len(q))
Parent(p) == SubSeq(p, 1, Len(p) - 1)

Exists(f, p) == p = << >> \/ p \in DOMAIN f
IsDir(f, p) == p = << >> \/ (p \in DOMAIN f /\ f[p].kind = "dir")
IsFile(f, p) == p \in DOMAIN f /\ f[p].kind = "file"
Under(f, p) == {q \in DOMAIN f : IsPrefix(p, q)}
Files(f) == {q \in DOMAIN f : f[q].kind = "file"}

\* Path.iterdir(): the entries directly inside directory p
iterdir(f, p) == {q \in DOMAIN f : Len(q) = Len(p) + 1 /\ IsPrefix(p, q)}

\* the content of directory p as a tree rooted at p
Rel(f, p) == [r \in {Drop(q, Len(p)) : q \in Under(f, p) \ {p}} |-> f[p \o r]]

\* f with tree t laid over directory p
Graft(f, p, t) ==
    [q \in DOMAIN f \cup {p \o r : r \in DOMAIN t} |->
        IF IsPrefix(p, q) /\ Drop(q, Len(p)) \in DOMAIN t
        THEN t[Drop(q, Len(p))]
        ELSE f[q]]

Put(f, p, node) == [q \in DOMAIN f \cup {p} |-> IF q = p THEN node ELSE f[q]]

\* shutil.rmtree(p) / Path.unlink(p)
rmtree(f, p) == [q \in DOMAIN f \ Under(f, p) |-> f[q]]
unlink(f, p) == [q \in DOMAIN f \ {p} |-> f[q]]

\* os.rename of a directory onto a path that does not exist
rename(f, src, dst) == Graft(Put(rmtree(f, src), dst, f[src]), dst, Rel(f, src))

\* a file operation either gives the new tree or raises
Ok(f) == [ok |-> TRUE, fs |-> f]
Raise(f) == [ok |-> FALSE, fs |-> f]

\* Path.mkdir(parents=True) without exist_ok
mkdir(f, p) == IF Exists(f, p) THEN Raise(f) ELSE Ok(Put(f, p, DirNode))

copy2_skip_existing(f, node, name, dst) ==
    IF IsDir(f, dst)
    THEN IF Exists(f, dst \o <<name>>) THEN Ok(f) ELSE Ok(Put(f, dst \o <<name>>, node))
    ELSE IF Exists(f, dst) THEN Ok(f) ELSE Ok(Put(f, dst, node))

\* shutil.copy2(src, dst): a dst that is a directory receives the file under
\* the source's name
copy2(f, node, name, dst) ==
    IF IsDir(f, dst)
    THEN IF IsDir(f, dst \o <<name>>)
         THEN Raise(f)
         ELSE Ok(Put(f, dst \o <<name>>, node))
    ELSE Ok(Put(f, dst, node))

\* dest_file.parent.mkdir(parents=True, exist_ok=True)
RECURSIVE mkdir_parents(_, _)
mkdir_parents(f, p) ==
    IF p = << >> THEN Ok(f)
    ELSE LET up == mkdir_parents(f, Parent(p))
         IN  IF ~up.ok THEN up
             ELSE IF IsFile(up.fs, p) THEN Raise(up.fs)
             ELSE IF IsDir(up.fs, p) THEN up
             ELSE Ok(Put(up.fs, p, DirNode))

\* shutil.copytree(item, dest) onto a dest that does not exist
copytree(f, src, name, dst) == Graft(Put(f, dst, DirNode), dst, Rel(src, <<name>>))

\* shutil.move(src, dst) of a directory
move(f, src, dst) ==
    IF IsDir(f, dst)
    THEN LET real_dst == dst \o <<src[Len(src)]>>
         IN  IF Exists(f, real_dst) THEN Raise(f) ELSE Ok(rename(f, src, real_dst))
    ELSE IF Exists(f, dst) THEN Raise(f)
    ELSE Ok(rename(f, src, dst))

\* the trees a failed ZipFile.extractall(dest) can leave behind
PartialTrees(t) ==
    {[q \in S |-> t[q]] : S \in {S \in SUBSET DOMAIN t :
        /\ S # DOMAIN t
        /\ \A q \in S : Len(q) > 1 => Parent(q) \in S}}

(***************************************************************************)
(* The working directory.  A merge install (--here) targets the working    *)
(* directory itself; a fresh install targets the directory ProjName in it. *)
(* The asset is downloaded to ZipName in the working directory.            *)
(***************************************************************************)
ZipName == "spec-kit-template.zip"
ProjName == "proj"
TempName == "proj_temp"
RootName == "root"
SpecifyName == ".specify"
AgentName == ".claude"
ScriptsName == "scripts"

zip_path == <<ZipName>>
project_path == IF here THEN << >> ELSE <<ProjName>>
temp_move_dir == <<TempName>>

Old(p) == FileNode(<<"old">> \o p)
New(p) == FileNode(<<"new">> \o p)
Zip(state) == FileNode(<<"zip", state>>)

Leaf(p, node) == [q \in {p} |-> node]

\* the trees a release asset may hold, before any wrapping root directory
InnerTrees ==
    {x @@ y @@ z :
        x \in {EmptyTree, Leaf(<<"a.txt">>, New(<<"a.txt">>))},
        y \in {EmptyTree,
               Leaf(<<"sub">>, New(<<"sub">>)),
               Leaf(<<"sub">>, DirNode),
               Leaf(<<"sub">>, DirNode) @@ Leaf(<<"sub", "b.txt">>, New(<<"sub", "b.txt">>))},
        z \in {EmptyTree, Leaf(zip_path, New(zip_path))}}

Wrap(t) == Graft(Leaf(<<RootName>>, DirNode), <<RootName>>, t)

\* a template that ships scripts, as the released ones do
ScriptsTree ==
    Leaf(<<SpecifyName>>, DirNode)
        @@ Leaf(<<SpecifyName, ScriptsName>>, DirNode)
        @@ Leaf(<<SpecifyName, ScriptsName, "x.sh">>, New(<<SpecifyName, ScriptsName, "x.sh">>))

Archives == InnerTrees \cup {Wrap(t) : t \in InnerTrees} \cup {ScriptsTree, Wrap(ScriptsTree)}

\* what the working directory may hold before a merge install
MergeTargets ==
    {x @@ y @@ z :
        x \in {EmptyTree, Leaf(<<"a.txt">>, Old(<<"a.txt">>)), Leaf(<<"a.txt">>, DirNode)},
        y \in {EmptyTree,
               Leaf(<<"sub">>, Old(<<"sub">>)),
               Leaf(<<"sub">>, DirNode),
               Leaf(<<"sub">>, DirNode) @@ Leaf(<<"sub", "b.txt">>, Old(<<"sub", "b.txt">>))},
        z \in {EmptyTree, Leaf(zip_path, Old(zip_path))}}

\* what the working directory may hold before a fresh install
FreshTargets ==
    {x @@ y @@ z :
        x \in {EmptyTree,
               Leaf(<<ProjName>>, DirNode)
                   @@ Leaf(<<ProjName, "a.txt">>, Old(<<ProjName, "a.txt">>))},
        y \in {EmptyTree,
               Leaf(temp_move_dir, Old(temp_move_dir)),
               Leaf(temp_move_dir, DirNode),
               Leaf(temp_move_dir, DirNode) @@ Leaf(<<TempName, RootName>>, DirNode)},
        z \in {EmptyTree, Leaf(zip_path, Old(zip_path))}}

(***************************************************************************)
(* The tracker init builds before the call (lines 1397-1423).              *)
(***************************************************************************)
RECURSIVE add_all(_, _)
add_all(s, pairs) ==
    IF pairs = << >> THEN s
    ELSE add_all(add(s, pairs[1][1], pairs[1][2]), Tail(pairs))

init_tracker ==
    LET s1 == complete(add(NewTracker, "precheck", "Check required tools"), "precheck", "ok")
        s2 == complete(add(s1, "ai-select", "Select AI assistant"), "ai-select", "claude")
        s3 == complete(add(s2, "script-select", "Select script type"), "script-select", "sh")
        s4 == complete(add(s3, "classification", "Project classification"),
                       "classification", "type (score/100)")
    IN  add_all(s4, << <<"fetch", "Fetch latest release">>,
                       <<"download", "Download template">>,
                       <<"extract", "Extract template">>,
                       <<"zip-list", "Archive contents">>,
                       <<"extracted-summary", "Extraction summary">>,
                       <<"chmod", "Ensure scripts executable">>,
                       <<"cleanup", "Cleanup">>,
                       <<"git", "Initialize git repository">>,
                       <<"final", "Finalize">> >>)

(***************************************************************************)
(* init (lines 1219-1309): argument checks, then the setup panel, which    *)
(* reads the local name classification.  Nothing in init binds that name.  *)
(***************************************************************************)
InitRejectsArguments ==
    /\ pc = "start"
    /\ \E named \in BOOLEAN : (here /\ named) \/ (~here /\ ~named)
    /\ pc' = "exit_usage"
    /\ UNCHANGED <<steps, lastCall, ncalls, cin, verdict, xvars, ovars, here, archive, fs, fs0, scratch, items>>

InitDirectoryConflict ==
    /\ pc = "start"
    /\ ~here
    /\ Exists(fs, project_path)
    /\ pc' = "exit_conflict"
    /\ UNCHANGED <<steps, lastCall, ncalls, cin, verdict, xvars, ovars, here, archive, fs, fs0, scratch, items>>

InitResolvesTarget ==
    /\ pc = "start"
    /\ here \/ ~Exists(fs, project_path)
    /\ pc' = "init_setup_panel"
    /\ UNCHANGED <<steps, lastCall, ncalls, cin, verdict, xvars, ovars, here, archive, fs, fs0, scratch, items>>

InitSetupPanel ==
    /\ pc = "init_setup_panel"
    /\ pc' = IF verdict.returned THEN "init_select" ELSE "NameError"
    /\ UNCHANGED <<steps, lastCall, ncalls, cin, verdict, xvars, ovars, here, archive, fs, fs0, scratch, items>>

(***************************************************************************)
(* download_and_extract_template (lines 1004-1171) with the tracker, and   *)
(* download_template_from_github (lines 826-935) inside it.                *)
(***************************************************************************)
\* rich.panel.Panel(body, title=title): the body is kept as its text parts
Panel(title, body) == [title |-> title, body |-> body]

\* the parts of a text joined into one string
RECURSIVE Text(_)
Text(parts) == IF parts = << >> THEN "" ELSE parts[1] \o Text(Tail(parts))

\* raise typer.Exit(1) out of the handler of the failure `cause` in step
\* `step`: str() of a typer.Exit(1) is "1"
typer_Exit(step, cause) ==
    [raised |-> TRUE, at |-> step, cause |-> cause, str |-> <<"1">>]

\* raise RuntimeError(message) for the failure `cause` in step `step`
RuntimeError(step, cause, message) ==
    [raised |-> TRUE, at |-> step, cause |-> cause, str |-> message]

keep_failed_target(f, is_current_dir, path) == f

\* lines 1153-1155: remove the project directory of a failed fresh install
cleanup_failed_target(f, is_current_dir, path) ==
    IF ~is_current_dir /\ Exists(f, path) THEN rmtree(f, path) ELSE f

keep_archive(f) == f

\* lines 1164-1165 and 923-924: remove the downloaded archive
remove_archive(f) == IF Exists(f, zip_path) THEN unlink(f, zip_path) ELSE f

\* lines 1083-1085 and 1129-1131: the single wrapping directory, if any
source_dir(t) ==
    IF /\ Cardinality(iterdir(t, << >>)) = 1
       /\ \A q \in iterdir(t, << >>) : IsDir(t, q)
    THEN CHOOSE q \in iterdir(t, << >>) : TRUE
    ELSE << >>

\* the call at line 1434; lines 1023-1024
Invoke ==
    /\ pc = "start"
    /\ ~local_templates
    /\ steps' = start(init_tracker, "fetch", "contacting GitHub API")
    /\ pc' = "listing"
    /\ UNCHANGED <<lastCall, ncalls, cin, verdict, xvars, ovars, here, archive, fs, fs0, scratch, items>>

\* lines 836-881: the release listing answers and names a matching asset
ListRelease ==
    /\ pc = "listing"
    /\ pc' = "download"
    /\ UNCHANGED <<steps, lastCall, ncalls, cin, verdict, xvars, ovars, here, archive, fs, fs0, scratch, items>>

\* lines 853-856, 868-872, then 1040-1046: no listing or no matching asset
ListReleaseFails ==
    /\ pc = "listing"
    /\ \E cause \in {"GitHub API returned 500", "no matching asset"} :
          /\ console' = Append(console,
                               IF cause = "no matching asset"
                               THEN Panel("Available Assets", <<"(no assets)">>)
                               ELSE Panel("Fetch Error", <<cause>>))
          /\ exc' = typer_Exit("fetch", cause)
    /\ steps' = error(steps, "fetch", Text(exc'.str))
    /\ pc' = "fetch_failed"
    /\ UNCHANGED <<lastCall, ncalls, cin, verdict, xvars, refresh, local_templates, here,
                   archive, fs, fs0, scratch, items>>

\* lines 887-899: the asset answers 200 and the archive file is opened
DownloadOpens ==
    /\ pc = "download"
    /\ fs' = Put(fs, zip_path, Zip("partial"))
    /\ pc' = "streaming"
    /\ UNCHANGED <<steps, lastCall, ncalls, cin, verdict, xvars, ovars, here, archive, fs0, scratch, items>>

\* lines 895-897, 920-926, then 1040-1046: the asset does not answer 200
DownloadRefused ==
    /\ pc = "download"
    /\ fs' = remove_archive(fs)
    /\ console' = Append(console, Panel("Download Error", <<"Download failed with 404">>))
    /\ exc' = typer_Exit("download", "Download failed with 404")
    /\ steps' = error(steps, "fetch", Text(exc'.str))
    /\ pc' = "download_failed"
    /\ UNCHANGED <<lastCall, ncalls, cin, verdict, xvars, refresh, local_templates, here,
                   archive, fs0, scratch, items>>

\* lines 900-919, 927-935, then 1036-1039
DownloadCompletes ==
    /\ pc = "streaming"
    /\ fs' = Put(fs, zip_path, Zip("complete"))
    /\ steps' = complete(add(complete(steps, "fetch", "release"),
                             "download", "Download template"),
                         "download", "filename")
    /\ pc' = "fetched"
    /\ UNCHANGED <<lastCall, ncalls, cin, verdict, xvars, ovars, here, archive, fs0, scratch, items>>

\* lines 920-926, then 1040-1046: the stream breaks
DownloadFails ==
    /\ pc = "streaming"
    /\ fs' = remove_archive(fs)
    /\ console' = Append(console, Panel("Download Error", <<"connection reset">>))
    /\ exc' = typer_Exit("download", "connection reset")
    /\ steps' = error(steps, "fetch", Text(exc'.str))
    /\ pc' = "download_failed"
    /\ UNCHANGED <<lastCall, ncalls, cin, verdict, xvars, refresh, local_templates, here,
                   archive, fs0, scratch, items>>

\* KeyboardInterrupt while streaming: it is no Exception, so neither line 920,
\* line 1040 nor line 1457 catches it, and the process ends
DownloadInterrupted ==
    /\ pc = "streaming"
    /\ pc' = "interrupted"
    /\ UNCHANGED <<steps, lastCall, ncalls, cin, verdict, xvars, ovars, here, archive, fs, fs0, scratch, items>>

\* lines 1048-1050
StartExtract ==
    /\ pc = "fetched"
    /\ steps' = start(add(steps, "extract", "Extract template"), "extract", "")
    /\ pc' = "mkdir"
    /\ UNCHANGED <<lastCall, ncalls, cin, verdict, xvars, ovars, here, archive, fs, fs0, scratch, items>>

\* lines 1145-1156 and 1160-1169: the except clause, then the finally clause,
\* entered with the files as the failed step left them
ExtractExcept(f) ==
    LET cleaned == cleanup_failed_target(f, here, project_path)
        s == add(error(steps, "extract", "extraction failed"), "cleanup", "Remove temporary archive")
    IN  /\ fs' = remove_archive(cleaned)
        /\ steps' = IF Exists(cleaned, zip_path) THEN complete(s, "cleanup", "") ELSE s
        /\ exc' = typer_Exit("extract", "extraction failed")
        /\ scratch' = NoDir
        /\ items' = {}
        /\ pc' = "extract_failed"
        /\ UNCHANGED <<lastCall, ncalls, cin, verdict, xvars, refresh, local_templates,
                       console, here, archive, fs0>>

\* lines 1157-1171: the else clause, then the finally clause
ExtractElse ==
    LET s == add(complete(steps, "extract", ""), "cleanup", "Remove temporary archive")
    IN  /\ fs' = remove_archive(fs)
        /\ steps' = IF Exists(fs, zip_path) THEN complete(s, "cleanup", "") ELSE s
        /\ scratch' = NoDir
        /\ items' = {}
        /\ pc' = "returned"
        /\ UNCHANGED <<lastCall, ncalls, cin, verdict, xvars, ovars, here, archive, fs0>>

\* lines 1056-1057
MakeProjectDir ==
    /\ pc = "mkdir"
    /\ LET made == IF here THEN Ok(fs) ELSE mkdir(fs, project_path)
       IN  IF made.ok
           THEN /\ fs' = made.fs
                /\ pc' = "open_zip"
                /\ UNCHANGED <<steps, lastCall, ncalls, cin, verdict, xvars, ovars, here, archive, fs0,
                               scratch, items>>
           ELSE ExtractExcept(made.fs)

\* lines 1059-1066
OpenZip ==
    /\ pc = "open_zip"
    /\ steps' = complete(start(steps, "zip-list", ""), "zip-list", "n entries")
    /\ pc' = IF here THEN "extract_scratch" ELSE "extract_direct"
    /\ UNCHANGED <<lastCall, ncalls, cin, verdict, xvars, ovars, here, archive, fs, fs0, scratch, items>>

\* line 1059: the file is no zip archive
OpenZipFails ==
    /\ pc = "open_zip"
    /\ ExtractExcept(fs)

\* the tree the merge loop copies from: the scratch copy, flattened if it has
\* a single wrapping directory
source_tree == Rel(scratch.tree, source_dir(scratch.tree))

\* lines 1069-1090: extract to the temporary directory, look for a wrapper
ExtractToScratch ==
    /\ pc = "extract_scratch"
    /\ scratch' = [exists |-> TRUE, tree |-> archive]
    /\ LET s == complete(start(steps, "extracted-summary", ""),
                         "extracted-summary", "temp n items")
       IN  steps' = IF source_dir(archive) # << >>
                    THEN complete(add(s, "flatten", "Flatten nested directory"), "flatten", "")
                    ELSE s
    /\ items' = iterdir(Rel(archive, source_dir(archive)), << >>)
    /\ pc' = "merging"
    /\ UNCHANGED <<lastCall, ncalls, cin, verdict, xvars, ovars, here, archive, fs, fs0>>

ExtractIntoTargetFails ==
    /\ pc = "extract_scratch"
    /\ \E t \in PartialTrees(archive) : ExtractExcept(Graft(fs, project_path, t))

\* line 1072: extractall raises; the temporary directory is removed
ExtractToScratchFails ==
    /\ pc = "extract_scratch"
    /\ ExtractExcept(fs)

\* lines 1093-1111 for one top-level entry of source_dir
MergeTop(p) ==
    /\ pc = "merging"
    /\ p \in items
    /\ Len(p) = 1
    /\ \A q \in items : Len(q) = 1
    /\ LET dest_path == project_path \o p
       IN  IF IsDir(source_tree, p)
           THEN /\ IF Exists(fs, dest_path)
                   THEN /\ items' = (items \ {p})
                                        \cup {q \in Files(source_tree) : IsPrefix(p, q)}
                        /\ fs' = fs
                   ELSE /\ items' = items \ {p}
                        /\ fs' = copytree(fs, source_tree, p[1], dest_path)
                /\ UNCHANGED <<steps, lastCall, ncalls, cin, verdict, xvars, ovars, pc, here, archive,
                               fs0, scratch>>
           ELSE LET copied == copy2(fs, source_tree[p], p[1], dest_path)
                IN  IF copied.ok
                    THEN /\ fs' = copied.fs
                         /\ items' = items \ {p}
                         /\ UNCHANGED <<steps, lastCall, ncalls, cin, verdict, xvars, ovars, pc, here,
                                        archive, fs0, scratch>>
                    ELSE ExtractExcept(copied.fs)

\* lines 1100-1105 for one file inside a directory that exists in the target
MergeNested(p) ==
    /\ pc = "merging"
    /\ p \in items
    /\ Len(p) > 1
    /\ LET dest_file == project_path \o p
           made == mkdir_parents(fs, Parent(dest_file))
           copied == copy2(made.fs, source_tree[p], p[Len(p)], dest_file)
       IN  IF made.ok /\ copied.ok
           THEN /\ fs' = copied.fs
                /\ items' = items \ {p}
                /\ UNCHANGED <<steps, lastCall, ncalls, cin, verdict, xvars, ovars, pc, here, archive,
                               fs0, scratch>>
           ELSE ExtractExcept(IF made.ok THEN copied.fs ELSE made.fs)

\* a copy of the merge loop raises (an I/O error)
MergeFails ==
    /\ pc = "merging"
    /\ items # {}
    /\ ExtractExcept(fs)

\* the merge loop ends; lines 1157-1171
MergeDone ==
    /\ pc = "merging"
    /\ items = {}
    /\ ExtractElse

\* lines 1116-1129: extract into the new project directory
ExtractDirect ==
    /\ pc = "extract_direct"
    /\ fs' = Graft(fs, project_path, archive)
    /\ steps' = complete(start(steps, "extracted-summary", ""),
                         "extracted-summary", "n top-level items")
    /\ pc' = IF source_dir(archive) # << >> THEN "flatten_move" ELSE "extracted"
    /\ UNCHANGED <<lastCall, ncalls, cin, verdict, xvars, ovars, here, archive, fs0, scratch, items>>

\* line 1116: extractall raises part of the way through
ExtractDirectFails ==
    /\ pc = "extract_direct"
    /\ \E t \in PartialTrees(archive) : ExtractExcept(Graft(fs, project_path, t))

\* lines 1131-1134: move the wrapping directory out to <project>_temp
FlattenMoveOut ==
    /\ pc = "flatten_move"
    /\ LET nested_dir == project_path \o source_dir(Rel(fs, project_path))
           moved == move(fs, nested_dir, temp_move_dir)
       IN  IF moved.ok
           THEN /\ fs' = moved.fs
                /\ pc' = "flatten_rmdir"
                /\ UNCHANGED <<steps, lastCall, ncalls, cin, verdict, xvars, ovars, here, archive, fs0,
                               scratch, items>>
           ELSE ExtractExcept(moved.fs)

\* line 1136: remove the now-empty project directory
FlattenRmdir ==
    /\ pc = "flatten_rmdir"
    /\ IF Under(fs, project_path) = {project_path}
       THEN /\ fs' = unlink(fs, project_path)
            /\ pc' = "flatten_back"
            /\ UNCHANGED <<steps, lastCall, ncalls, cin, verdict, xvars, ovars, here, archive, fs0,
                           scratch, items>>
       ELSE ExtractExcept(fs)

\* lines 1138-1141: rename <project>_temp to the project directory
FlattenMoveBack ==
    /\ pc = "flatten_back"
    /\ LET moved == move(fs, temp_move_dir, project_path)
       IN  IF moved.ok
           THEN /\ fs' = moved.fs
                /\ steps' = complete(add(steps, "flatten", "Flatten nested directory"),
                                     "flatten", "")
                /\ pc' = "extracted"
                /\ UNCHANGED <<lastCall, ncalls, cin, verdict, xvars, ovars, here, archive, fs0,
                               scratch, items>>
           ELSE ExtractExcept(moved.fs)

\* a step of the flatten sequence raises (an I/O error)
FlattenFails ==
    /\ pc \in {"flatten_move", "flatten_rmdir", "flatten_back"}
    /\ ExtractExcept(fs)

\* a fresh install ends; lines 1157-1171
ExtractDone ==
    /\ pc = "extracted"
    /\ ExtractElse

(***************************************************************************)
(* copy_local_templates (lines 938-1001), which the call on line 1434      *)
(* runs instead of the download when --local-templates is given.           *)
(***************************************************************************)
\* what the local templates directory may hold
LocalTrees ==
    {x @@ y :
        x \in {EmptyTree,
               Leaf(<<SpecifyName>>, DirNode),
               ScriptsTree},
        y \in {EmptyTree,
               Leaf(<<AgentName>>, DirNode)
                   @@ Leaf(<<AgentName, "c.md">>, New(<<AgentName, "c.md">>))}}

\* lines 966-971 and 981-989: replace <project>/<name> by the directory
\* <name> of the local templates, if they hold one
copy_local_dir(f, t, name) ==
    LET dst == project_path \o <<name>>
    IN  IF <<name>> \notin DOMAIN t THEN Ok(f)
        ELSE IF IsFile(f, dst) THEN Raise(f)
        ELSE LET cleared == IF Exists(f, dst) THEN rmtree(f, dst) ELSE f
                 up == mkdir_parents(cleared, project_path)
             IN  IF up.ok THEN Ok(copytree(up.fs, t, name, dst)) ELSE Raise(cleared)

\* lines 1009-1018, 942-944: the local templates directory does not exist;
\* the RuntimeError is raised before the tracker is touched
InvokeLocalMissing ==
    /\ pc = "start"
    /\ local_templates
    /\ steps' = init_tracker
    /\ exc' = RuntimeError("local-copy", "Local templates directory does not exist",
                           <<"Local templates directory does not exist: ", "path">>)
    /\ pc' = "local_failed"
    /\ UNCHANGED <<lastCall, ncalls, cin, verdict, xvars, refresh, local_templates, console,
                   here, archive, fs, fs0, scratch, items>>

\* lines 1009-1018, 942-962
InvokeLocal ==
    /\ pc = "start"
    /\ local_templates
    /\ steps' = start(init_tracker, "local-copy", "using local templates")
    /\ pc' = "local_copy"
    /\ UNCHANGED <<lastCall, ncalls, cin, verdict, xvars, ovars, here, archive, fs, fs0, scratch,
                   items>>

\* lines 996-999: the except clause of the copy
LocalCopyExcept(f) ==
    /\ fs' = f
    /\ steps' = error(steps, "local-copy", "copy failed")
    /\ exc' = RuntimeError("local-copy", "copy failed",
                           <<"Failed to copy local templates: ", "copy failed">>)
    /\ pc' = "local_failed"
    /\ UNCHANGED <<lastCall, ncalls, cin, verdict, xvars, refresh, local_templates, console,
                   here, archive, fs0, scratch, items>>

\* lines 964-1001: both directories are copied
LocalCopy ==
    /\ pc = "local_copy"
    /\ \E t \in LocalTrees :
          LET a == copy_local_dir(fs, t, SpecifyName)
              b == IF a.ok THEN copy_local_dir(a.fs, t, AgentName) ELSE a
          IN  IF b.ok
              THEN /\ fs' = b.fs
                   /\ steps' = complete(steps, "local-copy", "copied templates")
                   /\ pc' = "local_returned"
                   /\ UNCHANGED <<lastCall, ncalls, cin, verdict, xvars, ovars, here, archive,
                                  fs0, scratch, items>>
              ELSE LocalCopyExcept(b.fs)

\* a copy raises (an I/O error) before or after the .specify directory
LocalCopyFails ==
    /\ pc = "local_copy"
    /\ \E t \in LocalTrees :
          LET a == copy_local_dir(fs, t, SpecifyName)
          IN  \/ LocalCopyExcept(fs)
              \/ a.ok /\ a.fs # fs /\ LocalCopyExcept(a.fs)

(***************************************************************************)
(* init after the call returned (lines 1436-1456).                         *)
(***************************************************************************)
\* lines 1206-1209 of ensure_executable_scripts: the report to the tracker
chmod_report(s, updated, failures) ==
    LET detail == ToString(updated) \o " updated"
                  \o (IF failures # << >>
                      THEN ", " \o ToString(Len(failures)) \o " failed" ELSE "")
        s1 == add(s, "chmod", "Set script permissions recursively")
    IN  IF failures # << >> THEN error(s1, "chmod", detail)
        ELSE complete(s1, "chmod", detail)

\* line 1437: ensure_executable_scripts(project_path, tracker), lines
\* 1174-1209; the modes of the scripts are not part of fs, so what the pass
\* finds, as (updated, failures), is drawn here
PermissionPass ==
    /\ pc \in {"returned", "local_returned"}
    /\ \E os_name \in {"posix", "nt"} :
          IF os_name = "nt" \/ ~IsDir(fs, project_path \o <<SpecifyName, ScriptsName>>)
          THEN steps' = steps
          ELSE \E o \in {<<0, << >> >>, <<1, << >> >>, <<0, <<"x.sh: denied">> >>} :
                    steps' = chmod_report(steps, o[1], o[2])
    /\ pc' = "permissions"
    /\ UNCHANGED <<lastCall, ncalls, cin, verdict, xvars, ovars, here, archive, fs, fs0, scratch,
                   items>>

CLASSIFICATION_STATE_DIRNAME == <<SpecifyName, "state">>
CLASSIFICATION_FILENAME == "project-classification.json"

\* line 1439: persist_classification, lines 288-298; a failure is printed
\* and dropped
PersistClassification ==
    /\ pc = "permissions"
    /\ LET state_dir == project_path \o CLASSIFICATION_STATE_DIRNAME
           target == state_dir \o <<CLASSIFICATION_FILENAME>>
           made == mkdir_parents(fs, state_dir)
       IN  \/ /\ made.ok
              /\ ~IsDir(made.fs, target)
              /\ fs' = Put(made.fs, target, New(target))
              /\ console' = console
           \/ /\ fs' = made.fs
              /\ console' = Append(console,
                      Panel("", <<"Warning: failed to persist classification (",
                                  "write failed", ")">>))
    /\ pc' = "persisted"
    /\ UNCHANGED <<steps, lastCall, ncalls, cin, verdict, xvars, refresh, local_templates, exc,
                   here, archive, fs0, scratch, items>>

\* lines 1441-1454: the git step; whether the target is inside a work tree,
\* whether git is installed and whether git init succeeds are drawn here
GitStep ==
    /\ pc = "persisted"
    /\ \E no_git \in BOOLEAN :
          IF no_git
          THEN /\ steps' = skip(steps, "git", "--no-git flag")
               /\ fs' = fs
          ELSE \E is_git_repo \in BOOLEAN, should_init_git \in BOOLEAN, init_ok \in BOOLEAN :
                  LET started == start(steps, "git", "")
                      git_dir == project_path \o <<".git">>
                  IN  IF is_git_repo
                      THEN /\ steps' = complete(started, "git", "existing repo detected")
                           /\ fs' = fs
                      ELSE IF should_init_git
                      THEN IF init_ok /\ IsDir(fs, project_path) /\ ~IsFile(fs, git_dir)
                           THEN /\ steps' = complete(started, "git", "initialized")
                                /\ fs' = Put(fs, git_dir, DirNode)
                           ELSE /\ steps' = error(started, "git", "init failed")
                                /\ fs' = fs
                      ELSE /\ steps' = skip(started, "git", "git not available")
                           /\ fs' = fs
    /\ pc' = "git_done"
    /\ UNCHANGED <<lastCall, ncalls, cin, verdict, xvars, ovars, here, archive, fs0, scratch,
                   items>>

\* line 1456, then the static render and the closing panels
Finalize ==
    /\ pc = "git_done"
    /\ steps' = complete(steps, "final", "project ready")
    /\ pc' = "exit_success"
    /\ UNCHANGED <<lastCall, ncalls, cin, verdict, xvars, ovars, here, archive, fs, fs0, scratch,
                   items>>

\* lines 1469-1470
init_cleanup(f, is_here, path) ==
    IF ~is_here /\ Exists(f, path) THEN rmtree(f, path) ELSE f

\* lines 1457-1471: the call raised an Exception
InitExcept ==
    /\ pc \in {"fetch_failed", "download_failed", "extract_failed", "local_failed"}
    /\ steps' = error(steps, "final", Text(exc.str))
    /\ console' = Append(console, Panel("Failure", <<"Initialization failed: ">> \o exc.str))
    /\ fs' = init_cleanup(fs, here, project_path)
    /\ pc' = "exit_failure"
    /\ UNCHANGED <<lastCall, ncalls, cin, verdict, xvars, refresh, local_templates, exc, here,
                   archive, fs0, scratch, items>>

Init ==
    /\ steps = NewTracker
    /\ lastCall = NoCall
    /\ ncalls = 0
    /\ cin = NoInput
    /\ verdict = NoVerdict
    /\ pc = "start"
    /\ here \in BOOLEAN
    /\ local_templates \in BOOLEAN
    /\ archive \in (IF local_templates THEN {EmptyTree} ELSE Archives)
    /\ fs \in (IF here THEN MergeTargets ELSE FreshTargets)
    /\ fs0 = fs
    /\ scratch = NoDir
    /\ items = {}
    /\ NoExtras
    /\ refresh = NoRefresh
    /\ console = << >>
    /\ exc = NoExc

Next ==
    \/ InitRejectsArguments
    \/ InitDirectoryConflict
    \/ InitResolvesTarget
    \/ InitSetupPanel
    \/ Invoke
    \/ ListRelease
    \/ ListReleaseFails
    \/ DownloadOpens
    \/ DownloadRefused
    \/ DownloadCompletes
    \/ DownloadFails
    \/ DownloadInterrupted
    \/ StartExtract
    \/ MakeProjectDir
    \/ OpenZip
    \/ OpenZipFails
    \/ ExtractToScratch
    \/ ExtractToScratchFails
    \/ \E p \in items : MergeTop(p)
    \/ \E p \in items : MergeNested(p)
    \/ MergeFails
    \/ MergeDone
    \/ ExtractDirect
    \/ ExtractDirectFails
    \/ FlattenMoveOut
    \/ FlattenRmdir
    \/ FlattenMoveBack
    \/ FlattenFails
    \/ ExtractDone
    \/ InvokeLocalMissing
    \/ InvokeLocal
    \/ LocalCopy
    \/ LocalCopyFails
    \/ PermissionPass
    \/ PersistClassification
    \/ GitStep
    \/ Finalize
    \/ InitExcept

Spec == Init /\ [][Next]_vars

(***************************************************************************)
(* The directory scan (lines 85-153).  A directory tree is a function from *)
(* the path of each directory (relative to project_path, a sequence of     *)
(* names) to what listing it gives: its subdirectories and files in        *)
(* listing order, and whether it can be listed at all.                     *)
(***************************************************************************)
CONFIG_FILE_MARKERS ==
    {"package.json", "pnpm-lock.yaml", "yarn.lock", "pyproject.toml",
     "requirements.txt", "composer.json", "Gemfile", "Cargo.toml", "go.mod",
     "pom.xml", "build.gradle", "Dockerfile", "docker-compose.yml",
     "next.config.js", "vite.config.js", "vite.config.ts", "tsconfig.json",
     "Makefile"}

SCAN_EXCLUDE_DIRS ==
    {".git", ".specify", "__pycache__", "node_modules", ".venv", ".idea", ".vscode"}

\* int(result.stdout.strip() or "0") on the outputs the model passes in;
\* -1 stands for the ValueError of a text that is not a number
int_of_stdout(out) ==
    CASE out = "" -> 0
      [] out = "\n" -> 0
      [] out = "0\n" -> 0
      [] out = "1\n" -> 1
      [] out = "25\n" -> 25
      [] OTHER -> -1

\* git is how the subprocess ended: it raised (not a repository, tool
\* absent) or it printed stdout
_safe_git_commit_count(git) ==
    IF git.raised THEN 0
    ELSE IF int_of_stdout(git.stdout) < 0 THEN 0
    ELSE int_of_stdout(git.stdout)

RECURSIVE os_walk_dirs(_, _, _)

\* os.walk(project_path) with the scan's pruning of dirs (line 128): the
\* (root, files) pairs in top-down order; a directory that cannot be listed
\* yields nothing (onerror is None)
os_walk(tree, root) ==
    IF ~tree[root].readable THEN << >>
    ELSE <<[root |-> root, files |-> tree[root].files]>>
         \o os_walk_dirs(tree, root,
                         SelectSeq(tree[root].dirs, LAMBDA d : d \notin SCAN_EXCLUDE_DIRS))

os_walk_dirs(tree, root, dirs) ==
    IF dirs = << >> THEN << >>
    ELSE os_walk(tree, Append(root, Head(dirs))) \o os_walk_dirs(tree, root, Tail(dirs))

\* lines 130-136: one file of the inner loop
scan_file(st, root, name) ==
    LET rel_path == Append(root, name)
    IN  [broke |-> st.broke,
         file_count |-> st.file_count + 1,
         sample_paths |-> IF Len(st.sample_paths) < 6
                          THEN Append(st.sample_paths, rel_path)
                          ELSE st.sample_paths,
         config_hits |-> IF name \in CONFIG_FILE_MARKERS /\ Len(st.config_hits) < 12
                         THEN Append(st.config_hits, rel_path)
                         ELSE st.config_hits]

scan_break_late(st) == st.file_count > MAX_CLASSIFICATION_SCAN

\* lines 137-140: the test that leaves both loops
scan_break(st) == st.file_count >= MAX_CLASSIFICATION_SCAN

RECURSIVE scan_files(_, _, _, _, _)
\* lines 129-138: the inner loop over files[lo..hi], in order; once the
\* break test has held (st.broke) no further file is looked at.  The range
\* is split in halves so that a long listing is not a deep recursion.
scan_files(st, root, files, lo, hi) ==
    IF st.broke \/ lo > hi THEN st
    ELSE IF lo = hi
         THEN LET st1 == scan_file(st, root, files[lo])
              IN  [st1 EXCEPT !.broke = scan_break(st1)]
         ELSE LET mid == (lo + hi) \div 2
              IN  scan_files(scan_files(st, root, files, lo, mid), root, files, mid + 1, hi)

RECURSIVE scan_walk(_, _, _)
\* lines 127-140: the outer loop, from the j-th directory of the walk on
scan_walk(st, walk, j) ==
    IF j > Len(walk) THEN st
    ELSE LET st1 == scan_files([st EXCEPT !.broke = FALSE], walk[j].root,
                               walk[j].files, 1, Len(walk[j].files))
         IN  IF scan_break(st1) THEN st1
             ELSE scan_walk(st1, walk, j + 1)

\* (project_path / name).exists()
exists_in(tree, name) ==
    \/ \E i \in 1..Len(tree[<< >>].dirs) : tree[<< >>].dirs[i] = name
    \/ \E i \in 1..Len(tree[<< >>].files) : tree[<< >>].files[i] = name

_scan_project_state(tree, git) ==
    LET st == scan_walk([broke |-> FALSE, file_count |-> 0, config_hits |-> << >>,
                         sample_paths |-> << >>],
                        os_walk(tree, << >>), 1)
    IN  [file_count |-> st.file_count,
         config_hits |-> st.config_hits,
         sample_paths |-> st.sample_paths,
         has_specify |-> exists_in(tree, ".specify"),
         has_specs_dir |-> exists_in(tree, "specs"),
         git_commits |-> _safe_git_commit_count(git)]

(***************************************************************************)
(* Calls of classify_project_state on directory trees: the scan included.  *)
(***************************************************************************)
PlainFiles(n) == [i \in 1..n |-> ToString(i)]

MarkerFiles ==
    <<"package.json", "Makefile", "go.mod", "Dockerfile", "yarn.lock",
      "pom.xml", "Gemfile", "Cargo.toml", "tsconfig.json", "build.gradle",
      "composer.json", "pyproject.toml", "requirements.txt">>

\* the files of the top directory: some markers before or after plain files
TopFileLists ==
    {PlainFiles(n) : n \in {0, 5, 799, 800, 5000}}
    \cup {SubSeq(MarkerFiles, 1, m) \o PlainFiles(n) :
            m \in {2, 13}, n \in {0, 5, 799, 5000}}
    \cup {PlainFiles(n) \o SubSeq(MarkerFiles, 1, m) :
            m \in {2, 13}, n \in {5, 799, 5000}}

Listing(dirs, files, readable) == [dirs |-> dirs, files |-> files, readable |-> readable]

\* the subdirectories a tree of the model may have
SubTrees ==
    (<<"node_modules">> :> Listing(<<"dep">>, <<"package.json", "index.js">>, TRUE))
    @@ (<<"node_modules", "dep">> :> Listing(<< >>, <<"go.mod">>, TRUE))
    @@ (<<"src">> :> Listing(<<"__pycache__", "lib">>, <<"Makefile", "main.py">>, TRUE))
    @@ (<<"src", "__pycache__">> :> Listing(<< >>, <<"main.pyc">>, TRUE))
    @@ (<<"src", "lib">> :> Listing(<< >>, <<"util.py">>, TRUE))
    @@ (<<"locked">> :> Listing(<< >>, <<"secret.txt", "Dockerfile">>, FALSE))
    @@ (<<".specify">> :> Listing(<< >>, <<"state.json">>, TRUE))
    @@ (<<"specs">> :> Listing(<< >>, << >>, TRUE))

TopDirLists ==
    {<< >>, <<"node_modules", "src">>, <<"src", "node_modules", "locked">>,
     <<".specify", "locked">>, <<"specs">>, <<"locked", "src">>}

DirectoryTree(dirs, files) ==
    LET below == {p \in DOMAIN SubTrees : \E i \in 1..Len(dirs) : dirs[i] = p[1]}
    IN  (<< >> :> Listing(dirs, files, TRUE)) @@ [p \in below |-> SubTrees[p]]

DirectoryTrees == {DirectoryTree(d, f) : d \in TopDirLists, f \in TopFileLists}

GitOutcomes ==
    {[raised |-> TRUE]} \cup {[raised |-> FALSE, stdout |-> o] : o \in {"", "1\n", "25\n", "fatal"}}

ScanOverrides == {"auto", "", "Brownfield", "Legacy"}

ScanInputs ==
    {[given |-> TRUE, override |-> o, path_exists |-> FALSE, git |-> g] :
        o \in ScanOverrides, g \in GitOutcomes}
    \cup {[given |-> TRUE, override |-> o, path_exists |-> TRUE, tree |-> t, git |-> g] :
            o \in ScanOverrides, t \in DirectoryTrees, g \in GitOutcomes}

\* classify_project_state called on a directory (lines 156-285): the
\* override is checked first, then an existing directory is scanned
ClassifyDirectory ==
    /\ cin.given
    /\ verdict = NoVerdict
    /\ LET valid == override_normalized(cin.override) \in VALID_PROJECT_TYPES
           scans == valid /\ cin.path_exists
           sc == _scan_project_state(cin.tree, cin.git)
       IN  /\ scanned' = IF scans THEN [done |-> TRUE, result |-> sc] ELSE NoScan
           /\ verdict' = classify_project_state(
                            IF scans
                            THEN [given |-> TRUE, override |-> cin.override,
                                  path_exists |-> TRUE, scan |-> sc]
                            ELSE [given |-> TRUE, override |-> cin.override,
                                  path_exists |-> FALSE])
    /\ UNCHANGED <<steps, lastCall, ncalls, cin, scripts, scripts0, chmod, fsvars, ovars>>

ScanInit ==
    /\ steps = NewTracker
    /\ lastCall = NoCall
    /\ ncalls = 0
    /\ cin \in ScanInputs
    /\ verdict = NoVerdict
    /\ Idle
    /\ NoExtras

ScanNext == ClassifyDirectory

SpecScan == ScanInit /\ [][ScanNext]_vars

(***************************************************************************)
(* ensure_executable_scripts (lines 1174-1216).  An entry under the        *)
(* scripts directory is [sh, kind, head, opens, mode, chmod_fails]: whether *)
(* its name matches *.sh, whether it is a regular file, a symlink or a     *)
(* directory, its first two bytes, whether open() succeeds, its nine       *)
(* permission bits, and whether os.chmod on it raises.                     *)
(***************************************************************************)
MaxScripts == 2

\* mode & b for a single bit b
Bit(mode, b) == (mode \div b) % 2 = 1

\* mode | b for a single bit b
SetBit(mode, b) == IF Bit(mode, b) THEN mode ELSE mode + b

new_mode_owner_only(mode) == SetBit(mode, 64)

\* lines 1196-1201: 0o400 -> 0o100, 0o040 -> 0o010, 0o004 -> 0o001, and
\* 0o100 in any case
new_mode(mode) ==
    LET m1 == IF Bit(mode, 256) THEN SetBit(mode, 64) ELSE mode
        m2 == IF Bit(mode, 32) THEN SetBit(m1, 8) ELSE m1
        m3 == IF Bit(mode, 4) THEN SetBit(m2, 1) ELSE m2
    IN  IF ~Bit(m3, 64) THEN SetBit(m3, 64) ELSE m3

\* lines 1184-1205, one script of the loop: "skip" (a continue), "updated",
\* or "failed" (the except clause)
chmod_script(e) ==
    IF e.kind = "symlink" \/ e.kind # "file" THEN [what |-> "skip", mode |-> e.mode]
    ELSE IF ~e.opens \/ e.head # "#!" THEN [what |-> "skip", mode |-> e.mode]
    ELSE IF Bit(e.mode, 64) \/ Bit(e.mode, 8) \/ Bit(e.mode, 1)
         THEN [what |-> "skip", mode |-> e.mode]
    ELSE IF e.chmod_fails THEN [what |-> "failed", mode |-> e.mode]
    ELSE [what |-> "updated", mode |-> new_mode(e.mode)]

RECURSIVE chmod_loop(_, _, _)
\* lines 1181-1205: the loop over scripts_root.rglob("*.sh"), from entry i
chmod_loop(acc, entries, i) ==
    IF i > Len(entries) THEN acc
    ELSE IF ~entries[i].sh THEN chmod_loop(acc, entries, i + 1)
    ELSE LET r == chmod_script(entries[i])
         IN  chmod_loop([entries |-> [acc.entries EXCEPT ![i].mode = r.mode],
                         updated |-> acc.updated + (IF r.what = "updated" THEN 1 ELSE 0),
                         failures |-> IF r.what = "failed"
                                      THEN Append(acc.failures, i) ELSE acc.failures],
                        entries, i + 1)

\* the whole call
EnsureExecutableScripts ==
    /\ chmod.given
    /\ ~chmod.called
    /\ IF chmod.os_name = "nt" \/ ~chmod.scripts_root_is_dir
       THEN /\ chmod' = [chmod EXCEPT !.called = TRUE]
            /\ UNCHANGED <<steps, scripts>>
       ELSE LET r == chmod_loop([entries |-> scripts, updated |-> 0, failures |-> << >>],
                                scripts, 1)
            IN  /\ scripts' = r.entries
                /\ chmod' = [chmod EXCEPT !.called = TRUE, !.ran = TRUE,
                                          !.updated = r.updated,
                                          !.failures = r.failures]
                /\ steps' = IF chmod.tracker
                            THEN chmod_report(steps, r.updated, r.failures)
                            ELSE steps
    /\ UNCHANGED <<lastCall, ncalls, cin, verdict, scanned, scripts0, fsvars, ovars>>

\* regular *.sh files with a shebang, of every mode
ShebangScripts ==
    {[sh |-> TRUE, kind |-> "file", head |-> "#!", opens |-> TRUE, mode |-> m,
      chmod_fails |-> FALSE] : m \in 0..511}

\* entries of every other sort, on a few modes (0o640, 0o644, 0o040, 0o750)
OtherEntries ==
    [sh : BOOLEAN, kind : {"file", "symlink", "dir"}, head : {"#!", "ec"},
     opens : BOOLEAN, mode : {416, 420, 32, 488}, chmod_fails : BOOLEAN]

\* the entries the longer listings are made of
ListedEntries ==
    {e \in OtherEntries :
        \/ e.kind = "file" /\ e.head = "#!" /\ e.opens /\ e.mode \in {416, 488}
        \/ e.kind = "symlink" /\ e.sh /\ e.head = "#!" /\ e.opens /\ e.mode = 416
                              /\ ~e.chmod_fails}

RECURSIVE ListsUpTo(_, _)
ListsUpTo(S, n) ==
    IF n = 0 THEN {<< >>}
    ELSE LET shorter == ListsUpTo(S, n - 1)
         IN  shorter \cup {Append(l, e) : l \in shorter, e \in S}

ScriptListings ==
    {<<e>> : e \in ShebangScripts \cup OtherEntries} \cup ListsUpTo(ListedEntries, MaxScripts)

ChmodCalls ==
    [given : {TRUE}, called : {FALSE}, ran : {FALSE}, os_name : {"posix", "nt"},
     scripts_root_is_dir : BOOLEAN, tracker : BOOLEAN, updated : {0},
     failures : {<< >>}]

ChmodInit ==
    /\ chmod \in ChmodCalls
    /\ scripts \in (IF chmod.scripts_root_is_dir THEN ScriptListings ELSE {<< >>})
    /\ scripts0 = scripts
    /\ steps = IF chmod.tracker THEN init_tracker ELSE NewTracker
    /\ lastCall = NoCall
    /\ ncalls = 0
    /\ cin = NoInput
    /\ verdict = NoVerdict
    /\ scanned = NoScan
    /\ Idle

ChmodNext == EnsureExecutableScripts

SpecChmod == ChmodInit /\ [][ChmodNext]_vars

(***************************************************************************)
(* Properties.                                                             *)
(***************************************************************************)
StatusOf(s, key) ==
    IF key \in StepKeys(s)
    THEN s[CHOOSE j \in 1..Len(s) : s[j].key = key].status
    ELSE "absent"

UpdateOps == {"running", "done", "error", "skipped"}

\* the archive's content with a single wrapping top-level directory taken off
Flattened(t) ==
    IF \E r \in DOMAIN t : Len(r) = 1 /\ t[r].kind = "dir" /\ \A q \in DOMAIN t : IsPrefix(r, q)
    THEN Rel(t, CHOOSE r \in DOMAIN t : Len(r) = 1)
    ELSE t

MergeComplete == pc = "merging" /\ items = {}

\* C1: when extraction fails on a fresh target, download_and_extract_template
\* aborts with the target directory gone; when it fails on a merge target the
\* target directory stays, and aborting removes or changes nothing in it but
\* the downloaded archive (what was merged so far is left in place).
C1_FailedExtractionCleanup ==
    /\ [](pc = "extract_failed" =>
            IF here THEN \A p \in DOMAIN fs0 \ {zip_path} : Exists(fs, p)
            ELSE ~Exists(fs, project_path))
    /\ [][(pc' = "extract_failed" /\ pc # "extract_failed" /\ here) =>
            \A p \in DOMAIN fs \ {zip_path} : Exists(fs', p) /\ fs'[p] = fs[p]]_vars

\* C1 happens: a fresh install failed after the archive had been extracted
\* into the new project directory, and the directory is gone
C1_Witness ==
    /\ pc = "extract_failed"
    /\ ~here
    /\ StatusOf(steps, "extracted-summary") = "done"
    /\ ~Exists(fs0, project_path)
    /\ ~Exists(fs, project_path)

\* C1 happens on a merge target too: the failure left a merged file in place
C1_WitnessMerge ==
    /\ pc = "extract_failed"
    /\ here
    /\ \E p \in DOMAIN fs : p # zip_path /\ fs[p].kind = "file" /\ fs[p].data[1] = "new"

\* C2: in every state in which the remote pipeline has ended (listing failed,
\* download failed, extraction failed, extraction succeeded) no downloaded
\* archive is on disk; once a download was attempted no file is left at the
\* archive's path at all.
C2_ArchiveAlwaysRemoved ==
    /\ pc \in {"fetch_failed", "download_failed", "extract_failed", "returned", "exit_failure"}
            => ~(Exists(fs, zip_path) /\ fs[zip_path].data[1] = "zip")
    /\ pc \in {"download_failed", "extract_failed", "returned"} => ~Exists(fs, zip_path)

\* C2 happens: the archive was downloaded, extraction succeeded, the file is gone
C2_Witness ==
    /\ pc = "returned"
    /\ StatusOf(steps, "download") = "done"
    /\ StatusOf(steps, "cleanup") = "done"
    /\ ~Exists(fs, zip_path)

\* C3: when the process is interrupted while the archive is downloading, the
\* partial archive file and any project directory this run created are gone
\* when the process ends.
C3_InterruptCleansUp ==
    pc = "interrupted" =>
        /\ ~Exists(fs, zip_path)
        /\ ~here => (Exists(fs, project_path) => Exists(fs0, project_path))

\* C4: whenever init reads the classification verdict (to display it, to
\* record it in the tracker, to persist it) the classifier has returned one.
C4_ClassifierRunsFirst ==
    pc \in {"init_setup_panel", "init_select"} => verdict.returned

\* C5: once a merge install has copied every entry, each file path present in
\* both the incoming archive (flattened) and the target as it was holds the
\* incoming content; after the call returned this is still so for every path
\* but the downloaded archive's own.
C5_MergeOverwrites ==
    /\ MergeComplete =>
          \A p \in Files(Flattened(archive)) :
              IsFile(fs0, p) => IsFile(fs, p) /\ fs[p] = Flattened(archive)[p]
    /\ (pc = "returned" /\ here) =>
          \A p \in Files(Flattened(archive)) \ {zip_path} :
              IsFile(fs0, p) => IsFile(fs, p) /\ fs[p] = Flattened(archive)[p]

\* C5 happens: a top-level file and a file nested in an existing directory
\* were both overwritten with the incoming content
C5_Witness ==
    /\ MergeComplete
    /\ IsFile(fs0, <<"a.txt">>)
    /\ IsFile(fs0, <<"sub", "b.txt">>)
    /\ fs0[<<"a.txt">>].data[1] = "old"
    /\ fs[<<"a.txt">>].data[1] = "new"
    /\ fs[<<"sub", "b.txt">>].data[1] = "new"

\* a path of the incoming tree none of whose prefixes has another kind in the
\* target as it was
NoKindConflict(t, p) ==
    \A n \in 1..Len(p) :
        LET q == SubSeq(p, 1, n)
        IN  q \in DOMAIN fs0 => fs0[q].kind = t[q].kind

\* C6: after a successful install of an archive whose top level is exactly one
\* directory the target holds that directory's content directly (one level
\* removed, nothing under the wrapper's name); an archive with several
\* top-level entries or a single top-level file is installed as it is.
C6_SingleRootFlattened ==
    /\ (pc = "returned" /\ ~here) => Rel(fs, project_path) = Flattened(archive)
    /\ (MergeComplete /\ here) =>
          /\ \A p \in Files(Flattened(archive)) :
                NoKindConflict(Flattened(archive), p) => fs[p] = Flattened(archive)[p]
          /\ Flattened(archive) # archive =>
                \A q \in DOMAIN fs \ DOMAIN fs0 : q[1] \notin {r[1] : r \in DOMAIN archive}

\* C7: no two steps of the tracker share a key, and add with a key that is
\* already there changes nothing.
C7_KeysUnique ==
    /\ [](\A i, j \in 1..Len(steps) : steps[i].key = steps[j].key => i = j)
    /\ [][(ncalls' = ncalls + 1 /\ lastCall'.op = "add" /\ lastCall'.key \in StepKeys(steps))
            => steps' = steps]_vars

\* C7 happens: the second call was an add of the first call's key with
\* another label, and one step with the first label is there
C7_Witness ==
    /\ ncalls = 2
    /\ lastCall.op = "add"
    /\ Len(steps) = 1
    /\ steps[1].key = lastCall.key
    /\ steps[1].label # lastCall.arg
    /\ steps[1].status = "pending"

\* C8: start/complete/error/skip on a key that is there sets that step's
\* status, replaces its detail only when the given detail is not empty, and
\* changes no other step.
C8_DetailLastNonEmptyWins ==
    [][(ncalls' = ncalls + 1 /\ lastCall'.op \in UpdateOps /\ lastCall'.key \in StepKeys(steps))
        => /\ Len(steps') = Len(steps)
           /\ \A i \in 1..Len(steps) :
                 steps'[i] =
                    IF steps[i].key = lastCall'.key
                    THEN [key |-> steps[i].key,
                          label |-> steps[i].label,
                          status |-> lastCall'.op,
                          detail |-> IF lastCall'.arg = "" THEN steps[i].detail
                                     ELSE lastCall'.arg]
                    ELSE steps[i]]_vars

\* C8 happens: complete(key, "") came after start(key, "msg") and the detail
\* is still "msg"
C8_Witness ==
    /\ lastCall.op = "done"
    /\ lastCall.arg = ""
    /\ \E i \in 1..Len(steps) :
          /\ steps[i].key = lastCall.key
          /\ steps[i].status = "done"
          /\ steps[i].detail = "msg"

\* C9: start/complete/error/skip on a key that is not there appends one step
\* with label = key, the requested status and the given detail; no call
\* removes or reorders the steps that are there.
C9_UnknownKeyCreated ==
    /\ [][(ncalls' = ncalls + 1 /\ lastCall'.op \in UpdateOps
           /\ lastCall'.key \notin StepKeys(steps))
            => steps' = Append(steps, Step(lastCall'.key, lastCall'.key,
                                           lastCall'.op, lastCall'.arg))]_vars
    /\ [][/\ Len(steps') >= Len(steps)
          /\ \A i \in 1..Len(steps) : steps'[i].key = steps[i].key]_vars

\* C9 happens: an error on a key never added came after another step
C9_Witness ==
    /\ lastCall.op = "error"
    /\ Len(steps) = 2
    /\ steps[2] = Step(lastCall.key, lastCall.key, "error", lastCall.arg)
    /\ steps[1].key # lastCall.key

\* C10: in every verdict safeguard_required is true exactly when the final
\* project_type is brownfield.
C10_SafeguardIffBrownfield ==
    verdict.returned => (verdict.safeguard_required <=> verdict.project_type = "brownfield")

\* C10 happens: an override turned a heuristic brownfield into greenfield and
\* the safeguard went with it
C10_Witness ==
    /\ verdict.returned
    /\ verdict.override_applied
    /\ cin.path_exists
    /\ auto_type(cin.scan) = "brownfield"
    /\ verdict.project_type = "greenfield"
    /\ ~verdict.safeguard_required

(***************************************************************************)
(* The classifier's verdicts (C11-C17), checked under SpecClassify.        *)
(***************************************************************************)
\* the facts of the directory the classifier was called on
FileCount == IF cin.path_exists THEN cin.scan.file_count ELSE 0

GitCommits == IF cin.path_exists THEN cin.scan.git_commits ELSE 0

ConfigHits == IF cin.path_exists THEN Len(cin.scan.config_hits) ELSE 0

AutoOverride == cin.override \in {"", "auto", "AUTO"}

\* C11: a brownfield override, in any letter case, yields project_type
\* brownfield, confidence_score 99 and override_applied, whatever the
\* directory holds and also when it is absent; every non-auto override
\* replaces project_type and forces confidence 0.99.
C11_OverrideUnconditional ==
    /\ (cin.given /\ cin.override \in {"brownfield", "Brownfield"} /\ verdict # NoVerdict)
        => /\ verdict.returned
           /\ verdict.project_type = "brownfield"
           /\ verdict.confidence_score = 99
           /\ verdict.override_applied
    /\ (verdict.returned /\ ~AutoOverride)
        => /\ verdict.project_type \in {"greenfield", "brownfield", "ongoing"}
           /\ cin.override \in {"greenfield", "GreenField"} => verdict.project_type = "greenfield"
           /\ cin.override \in {"ongoing", "ONGOING"} => verdict.project_type = "ongoing"
           /\ cin.override \in {"brownfield", "Brownfield"} => verdict.project_type = "brownfield"
           /\ verdict.confidence = 990
           /\ verdict.override_applied

\* C11 happens: a mixed-case brownfield override on an absent directory
C11_Witness ==
    /\ verdict.returned
    /\ cin.override = "Brownfield"
    /\ ~cin.path_exists
    /\ verdict.project_type = "brownfield"
    /\ verdict.confidence_score = 99

\* C12: with override auto, a directory with file_count = 0 and no git
\* commits is classified greenfield with confidence >= 0.95.
C12_EmptyNoGitIsGreenfield ==
    (verdict.returned /\ AutoOverride /\ FileCount = 0 /\ GitCommits = 0)
        => (verdict.project_type = "greenfield" /\ verdict.confidence >= 950)

\* C12 as amended: with override auto, a directory with file_count = 0, no
\* git commits and neither a .specify nor a specs entry is classified
\* greenfield with confidence >= 0.95.
C12_EmptyUnmarkedIsGreenfield ==
    (/\ verdict.returned /\ AutoOverride /\ FileCount = 0 /\ GitCommits = 0
     /\ cin.path_exists => (~cin.scan.has_specify /\ ~cin.scan.has_specs_dir))
        => (verdict.project_type = "greenfield" /\ verdict.confidence >= 950)

\* C12 happens: an existing, empty, unmarked directory got greenfield at 0.95
C12_Witness ==
    /\ verdict.returned
    /\ AutoOverride
    /\ cin.path_exists
    /\ cin.scan.file_count = 0
    /\ cin.scan.git_commits = 0
    /\ ~cin.scan.has_specify
    /\ ~cin.scan.has_specs_dir
    /\ verdict.project_type = "greenfield"
    /\ verdict.confidence = 950

BrownfieldTrigger == GitCommits >= 20 \/ ConfigHits >= 2 \/ FileCount >= 120

OngoingTrigger ==
    \/ cin.scan.has_specify
    \/ cin.scan.has_specs_dir
    \/ GitCommits >= 1
    \/ ConfigHits >= 1
    \/ FileCount >= 12

\* C13: with override auto on an existing directory, project_type is
\* brownfield iff git_commits >= 20 or len(config_hits) >= 2 or
\* file_count >= 120; otherwise ongoing iff has_specify or has_specs_dir or
\* git_commits >= 1 or len(config_hits) >= 1 or file_count >= 12; otherwise
\* greenfield.
C13_DecisionRule ==
    (verdict.returned /\ AutoOverride /\ cin.path_exists)
        => /\ verdict.project_type = "brownfield" <=> BrownfieldTrigger
           /\ verdict.project_type = "ongoing" <=> (~BrownfieldTrigger /\ OngoingTrigger)
           /\ verdict.project_type = "greenfield" <=> (~BrownfieldTrigger /\ ~OngoingTrigger)

\* C13 happens: a brownfield trigger won over an ongoing baseline
C13_Witness ==
    /\ verdict.returned
    /\ AutoOverride
    /\ cin.path_exists
    /\ cin.scan.has_specify
    /\ cin.scan.git_commits >= 20
    /\ verdict.project_type = "brownfield"

\* C14: with override auto on an existing directory, confidence in
\* hundredths is: greenfield 95 when file_count is 0 and 80 otherwise;
\* ongoing min(90, 65 + 5*min(git_commits,4) + 5*min(len(config_hits),2)
\* + 10 if has_specify); brownfield min(98, 70 + 10 if git_commits >= 20
\* + 10 if len(config_hits) >= 2 + 5 if file_count >= 120).
C14_HeuristicConfidence ==
    (verdict.returned /\ AutoOverride /\ cin.path_exists)
        => LET hundredths ==
                 CASE verdict.project_type = "greenfield" ->
                        IF FileCount = 0 THEN 95 ELSE 80
                   [] verdict.project_type = "ongoing" ->
                        Min(90, 65 + 5 * Min(GitCommits, 4) + 5 * Min(ConfigHits, 2)
                                + (IF cin.scan.has_specify THEN 10 ELSE 0))
                   [] verdict.project_type = "brownfield" ->
                        Min(98, 70 + (IF GitCommits >= 20 THEN 10 ELSE 0)
                                + (IF ConfigHits >= 2 THEN 10 ELSE 0)
                                + (IF FileCount >= 120 THEN 5 ELSE 0))
           IN  /\ verdict.confidence = 10 * hundredths
               /\ verdict.confidence_score = hundredths

\* C14 happens: 25 commits, no config hits, 3 files gave brownfield at 0.80
C14_Witness ==
    /\ verdict.returned
    /\ AutoOverride
    /\ cin.path_exists
    /\ cin.scan.git_commits = 25
    /\ cin.scan.config_hits = << >>
    /\ cin.scan.file_count = 3
    /\ verdict.project_type = "brownfield"
    /\ verdict.confidence = 800

\* C15: in every verdict confidence lies in [0,1], and confidence_score is
\* the integer nearest to confidence*100 and lies in [0,100].
C15_ScoreIsRoundedConfidence ==
    verdict.returned
        => /\ verdict.confidence >= 0
           /\ verdict.confidence <= 1000
           /\ verdict.confidence_score \in 0..100
           /\ 10 * verdict.confidence_score - verdict.confidence <= 5
           /\ verdict.confidence - 10 * verdict.confidence_score <= 5

\* C15 happens: an override gave confidence 0.99 and score 99
C15_Witness ==
    /\ verdict.returned
    /\ verdict.override_applied
    /\ cin.path_exists
    /\ verdict.confidence = 990
    /\ verdict.confidence_score = 99

\* C16: in every verdict, override or not, requires_confirmation is true
\* exactly when the directory pre-existed, file_count >= 1 and the final
\* project_type is not greenfield.
C16_ConfirmationExactly ==
    verdict.returned
        => (verdict.requires_confirmation
                <=> (cin.path_exists /\ FileCount >= 1
                     /\ verdict.project_type # "greenfield"))

\* C16 as amended: with override auto, requires_confirmation is true exactly
\* when the directory pre-existed, file_count >= 1 and project_type is not
\* greenfield; with another override it is true exactly when that held of
\* the heuristic type or the override is brownfield or ongoing.
C16_ConfirmationWithOverride ==
    verdict.returned
        => LET heuristic == /\ cin.path_exists
                            /\ FileCount >= 1
                            /\ (BrownfieldTrigger \/ OngoingTrigger)
           IN  IF AutoOverride
               THEN verdict.requires_confirmation
                        <=> (cin.path_exists /\ FileCount >= 1
                             /\ verdict.project_type # "greenfield")
               ELSE verdict.requires_confirmation
                        <=> (heuristic \/ verdict.project_type \in {"brownfield", "ongoing"})

\* C16 happens: a greenfield override on a directory the heuristic calls
\* brownfield still requires confirmation
C16_Witness ==
    /\ verdict.returned
    /\ cin.override = "greenfield"
    /\ cin.path_exists
    /\ cin.scan.file_count >= 120
    /\ verdict.project_type = "greenfield"
    /\ verdict.requires_confirmation

\* C17: migration_recommendations has exactly 3 items for a final
\* project_type of brownfield, 2 for ongoing, none for greenfield, and the
\* list is the same for every verdict of that type.
C17_RecommendationsByType ==
    verdict.returned
        => /\ Len(verdict.migration_recommendations)
                = (CASE verdict.project_type = "brownfield" -> 3
                     [] verdict.project_type = "ongoing" -> 2
                     [] verdict.project_type = "greenfield" -> 0)
           /\ verdict.migration_recommendations # << >>
                => verdict.project_type \in {"ongoing", "brownfield"}
           /\ verdict.project_type = "brownfield"
                => verdict.migration_recommendations[1]
                        = "Create a backup branch before initializing templates"
           /\ verdict.project_type = "ongoing"
                => verdict.migration_recommendations[1]
                        = "Align new artifacts with existing feature directories"

\* C17 happens: an ongoing override on a directory the heuristic calls
\* greenfield carries the two ongoing recommendations
C17_Witness ==
    /\ verdict.returned
    /\ cin.override = "ongoing"
    /\ cin.path_exists
    /\ cin.scan.file_count = 0
    /\ ~cin.scan.has_specify
    /\ ~cin.scan.has_specs_dir
    /\ cin.scan.git_commits = 0
    /\ Len(verdict.migration_recommendations) = 2

(***************************************************************************)
(* The directory scan and the classifier's failures (C18, C19), checked    *)
(* under SpecScan.                                                         *)
(***************************************************************************)
\* the directories of the tree the walk may enter: none of their names is
\* excluded and they and their ancestors can be listed
VisibleDirs(tree) ==
    {d \in DOMAIN tree :
        /\ \A i \in 1..Len(d) : d[i] \notin SCAN_EXCLUDE_DIRS
        /\ \A i \in 0..Len(d) : tree[SubSeq(d, 1, i)].readable}

\* how many files the tree holds outside the excluded directories
VisibleCount(tree) ==
    Cardinality({<<d, i>> \in VisibleDirs(tree) \X (1..5000) : i <= Len(tree[d].files)})

RECURSIVE PathsOf(_, _)
\* the relative paths of the files of the walk, in the order they are seen
PathsOf(walk, j) ==
    IF j > Len(walk) THEN << >>
    ELSE [i \in 1..Len(walk[j].files) |-> Append(walk[j].root, walk[j].files[i])]
         \o PathsOf(walk, j + 1)

FirstSeen(tree) ==
    LET all == PathsOf(os_walk(tree, << >>), 1)
    IN  SubSeq(all, 1, Min(Len(all), 800))

IsMarker(path) == path[Len(path)] \in CONFIG_FILE_MARKERS

InExcluded(path) == \E i \in 1..(Len(path) - 1) : path[i] \in SCAN_EXCLUDE_DIRS

\* C18: the reported file_count is at most 800, and exactly 800 when the
\* tree holds 800 or more files outside the excluded directories;
\* config_hits has at most 12 entries and sample_paths at most 6, each the
\* first seen in walk order; no file inside an excluded directory is
\* counted or listed.
C18_ScanBounded ==
    scanned.done
        => LET r == scanned.result
               seen == FirstSeen(cin.tree)
               hits == SelectSeq(seen, IsMarker)
           IN  /\ r.file_count <= 800
               /\ VisibleCount(cin.tree) >= 800 => r.file_count = 800
               /\ r.file_count <= VisibleCount(cin.tree)
               /\ Len(r.config_hits) <= 12
               /\ Len(r.sample_paths) <= 6
               /\ r.sample_paths = SubSeq(seen, 1, Min(6, Len(seen)))
               /\ r.config_hits = SubSeq(hits, 1, Min(12, Len(hits)))
               /\ \A i \in 1..Len(r.sample_paths) : ~InExcluded(r.sample_paths[i])
               /\ \A i \in 1..Len(r.config_hits) : ~InExcluded(r.config_hits[i])

\* C18 happens: 5013 files at the top and a node_modules beside them were
\* scanned to exactly 800 files, 12 config hits and 6 samples
C18_Witness ==
    /\ scanned.done
    /\ Len(cin.tree[<< >>].files) = 5013
    /\ <<"node_modules">> \in DOMAIN cin.tree
    /\ scanned.result.file_count = 800
    /\ Len(scanned.result.config_hits) = 12
    /\ Len(scanned.result.sample_paths) = 6

ValidSpellings ==
    {"auto", "AUTO", "greenfield", "GreenField", "brownfield", "Brownfield",
     "ongoing", "ONGOING"}

\* C19: classify_project_state fails with an invalid-argument error, before
\* it inspects the directory, if and only if the override is not auto,
\* greenfield, brownfield or ongoing in some letter case; with a valid
\* override neither a failed git lookup (git_commits is then 0) nor a
\* subtree that cannot be listed makes it fail.
C19_FailsIffInvalidOverride ==
    verdict # NoVerdict
        => /\ verdict.raised <=> cin.override \notin ValidSpellings
           /\ verdict.raised => (verdict.exc = "BadParameter" /\ scanned = NoScan)
           /\ ~verdict.raised => verdict.returned
           /\ (verdict.returned /\ cin.path_exists /\ cin.git.raised)
                => verdict.stats.git_commits = 0

\* C19 as amended: the failure happens if and only if the override is
\* non-empty and not one of the four literals in some letter case (an empty
\* override is taken as auto); the rest as claimed.
C19_FailsIffInvalidNonEmptyOverride ==
    verdict # NoVerdict
        => /\ verdict.raised <=> cin.override \notin (ValidSpellings \cup {""})
           /\ verdict.raised => (verdict.exc = "BadParameter" /\ scanned = NoScan)
           /\ ~verdict.raised => verdict.returned
           /\ (verdict.returned /\ cin.path_exists /\ cin.git.raised)
                => verdict.stats.git_commits = 0

\* C19 happens: git failed and a subdirectory could not be listed, and the
\* verdict came back with git_commits 0
C19_Witness ==
    /\ verdict.returned
    /\ cin.path_exists
    /\ cin.git.raised
    /\ <<"locked">> \in DOMAIN cin.tree
    /\ verdict.stats.git_commits = 0
    /\ verdict.stats.file_count > 0

(***************************************************************************)
(* Permission normalization (C20), checked under SpecChmod.                *)
(***************************************************************************)
NoExecuteBit(mode) == ~Bit(mode, 64) /\ ~Bit(mode, 8) /\ ~Bit(mode, 1)

\* new is old plus the execute bit of each class whose read bit is set,
\* plus owner-execute in any case, and nothing else
Mirrored(new, old) ==
    /\ Bit(new, 64)
    /\ Bit(new, 8) <=> Bit(old, 32)
    /\ Bit(new, 1) <=> Bit(old, 4)
    /\ \A b \in {256, 128, 32, 16, 4, 2} : Bit(new, b) <=> Bit(old, b)
    /\ new < 512

\* a regular, non-symlink file that begins with a shebang and has no
\* execute bit
ShebangWithoutExecute(e) == e.kind = "file" /\ e.head = "#!" /\ NoExecuteBit(e.mode)

PosixRun == chmod.given /\ chmod.called /\ chmod.os_name = "posix" /\ chmod.scripts_root_is_dir

\* C20: on POSIX every regular, non-symlink file under the scripts directory
\* that begins with a shebang and has no execute bit gets its mode mirrored
\* (read bit of a class -> execute bit of that class, owner-execute always,
\* nothing else changed) and is counted in updated; every other entry is
\* left unchanged and not counted.  Files the process cannot open or chmod
\* are per-file failures and are not held against the claim.
C20_ShebangFilesMadeExecutable ==
    PosixRun
        => LET claimed == {i \in 1..Len(scripts0) :
                            /\ ShebangWithoutExecute(scripts0[i])
                            /\ scripts0[i].opens
                            /\ ~scripts0[i].chmod_fails}
           IN  /\ Len(scripts) = Len(scripts0)
               /\ \A i \in 1..Len(scripts0) :
                    IF i \in claimed
                    THEN Mirrored(scripts[i].mode, scripts0[i].mode)
                    ELSE scripts[i] = scripts0[i]
               /\ chmod.updated = Cardinality(claimed)

\* C20 as amended: the files normalized and counted are those named *.sh
\* that can be opened and whose chmod succeeds; a file not named *.sh or
\* that cannot be opened is left unchanged and not counted, and one whose
\* chmod fails is left unchanged, not counted and recorded as a failure.
C20_ShScriptsMadeExecutable ==
    PosixRun
        => LET wanted == {i \in 1..Len(scripts0) :
                            /\ ShebangWithoutExecute(scripts0[i])
                            /\ scripts0[i].sh
                            /\ scripts0[i].opens}
               done == {i \in wanted : ~scripts0[i].chmod_fails}
           IN  /\ Len(scripts) = Len(scripts0)
               /\ \A i \in 1..Len(scripts0) :
                    IF i \in done
                    THEN /\ Mirrored(scripts[i].mode, scripts0[i].mode)
                         /\ scripts[i] = [scripts0[i] EXCEPT !.mode = scripts[i].mode]
                    ELSE scripts[i] = scripts0[i]
               /\ chmod.updated = Cardinality(done)
               /\ {chmod.failures[k] : k \in 1..Len(chmod.failures)} = wanted \ done

\* C20 happens: a *.sh script of mode 0o640 with a shebang ended 0o750 and
\* was counted
C20_Witness ==
    /\ PosixRun
    /\ Len(scripts0) = 1
    /\ scripts0[1].sh
    /\ scripts0[1].mode = 416
    /\ scripts[1].mode = 488
    /\ chmod.updated = 1

(***************************************************************************)
(* What the installer leaves on disk (C22, C25-C27), checked under Spec.   *)
(***************************************************************************)
\* the call has ended, by returning or by raising, or init has handled it
PipelineEnded == pc \in {"fetch_failed", "download_failed", "extract_failed", "returned",
                         "exit_failure"}

\* f and g hold the same entries with the same content, the downloaded
\* archive's own path aside
SameButArchive(f, g) ==
    /\ DOMAIN f \ {zip_path} = DOMAIN g \ {zip_path}
    /\ \A p \in DOMAIN f \ {zip_path} : f[p] = g[p]

\* C22: a merge install extracts into a scratch directory: nothing is written
\* into the target until the whole archive has been extracted there, so when
\* the extraction itself fails the target's entries are as they were (the
\* downloaded archive file aside); the scratch directory is gone whenever
\* the call has ended.
C22_ScratchExtractionFirst ==
    /\ [](here /\ pc \in {"fetched", "mkdir", "open_zip", "extract_scratch"}
            => SameButArchive(fs, fs0))
    /\ [][(here /\ pc = "extract_scratch") => SameButArchive(fs', fs0)]_vars
    /\ [](scratch.exists => pc = "merging")
    /\ [](PipelineEnded => scratch = NoDir)

\* C22 happens: in a populated current directory the archive was opened and
\* its extraction failed: the call ended with the directory as it was
C22_Witness ==
    /\ here
    /\ pc = "extract_failed"
    /\ StatusOf(steps, "zip-list") = "done"
    /\ StatusOf(steps, "extracted-summary") # "done"
    /\ Files(fs0) # {}
    /\ SameButArchive(fs, fs0)
    /\ scratch = NoDir

\* C25: when a fresh-target install is started on a target that exists, so
\* that the extract step fails, the directory and everything in it is still
\* there, unchanged, after the extraction error handler and after init's
\* failure handler.
C25_PreexistingTargetKept ==
    (~here /\ Exists(fs0, project_path) /\ StatusOf(steps, "extract") = "error")
        => \A p \in DOMAIN fs0 :
              IsPrefix(project_path, p) => (p \in DOMAIN fs /\ fs[p] = fs0[p])

\* C26: when a fresh-target install has ended, successfully or not, nothing
\* outside the target directory and the downloaded archive was created,
\* changed or left behind: <target>_temp is as it was before the call.
C26_NothingOutsideTarget ==
    (~here /\ PipelineEnded)
        => /\ \A p \in DOMAIN fs :
                (~IsPrefix(project_path, p) /\ p # zip_path)
                    => (p \in DOMAIN fs0 /\ fs[p] = fs0[p])
           /\ \A p \in DOMAIN fs0 :
                (~IsPrefix(project_path, p) /\ p # zip_path) => p \in DOMAIN fs

\* C27: when a merge install has ended, successfully or not, every file that
\* was in the target and whose path does not occur in the archive (after
\* flattening) is still there with its content, a file named like the
\* downloaded archive included.
C27_MergeKeepsUnrelated ==
    (here /\ PipelineEnded)
        => \A p \in Files(fs0) :
              p \notin DOMAIN Flattened(archive) => (IsFile(fs, p) /\ fs[p] = fs0[p])


(***************************************************************************)
(* Ranges and monotonicity of the heuristic (C29, C30), checked under      *)
(* SpecClassify.                                                           *)
(***************************************************************************)
\* C29: with override auto, a brownfield verdict's confidence lies between
\* 0.75 and 0.95, an ongoing verdict's between 0.65 and 0.90, a greenfield
\* verdict's is 0.80, 0.95 or 0.98; the verdict is always one of the three
\* types, so the default 0.75 is only ever the brownfield sum 0.70 + 0.05.
C29_ConfidenceRanges ==
    (verdict.returned /\ AutoOverride)
        => /\ verdict.project_type \in {"greenfield", "ongoing", "brownfield"}
           /\ verdict.project_type = "brownfield"
                => verdict.confidence >= 750 /\ verdict.confidence <= 950
           /\ verdict.project_type = "ongoing"
                => verdict.confidence >= 650 /\ verdict.confidence <= 900
           /\ verdict.project_type = "greenfield"
                => verdict.confidence \in {800, 950, 980}
           /\ verdict.confidence = 750
                => /\ verdict.project_type \in {"brownfield", "ongoing"}
                   /\ verdict.project_type = "brownfield"
                        => FileCount >= 120 /\ GitCommits < 20 /\ ConfigHits < 2

\* C29 happens: file volume alone made the directory brownfield, at 0.75
C29_Witness ==
    /\ verdict.returned
    /\ AutoOverride
    /\ cin.path_exists
    /\ cin.scan.file_count >= 120
    /\ cin.scan.git_commits = 0
    /\ cin.scan.config_hits = << >>
    /\ verdict.project_type = "brownfield"
    /\ verdict.confidence = 750

\* greenfield < ongoing < brownfield
TypeRank(t) ==
    CASE t = "greenfield" -> 0
      [] t = "ongoing" -> 1
      [] t = "brownfield" -> 2

\* the scan records with at least the evidence of sc in every coordinate
MoreEvidence(sc) ==
    {more \in ScanResults :
        /\ more.git_commits >= sc.git_commits
        /\ Len(more.config_hits) >= Len(sc.config_hits)
        /\ more.file_count >= sc.file_count
        /\ sc.has_specify => more.has_specify
        /\ sc.has_specs_dir => more.has_specs_dir}

\* C30: with override auto, a directory with more git commits, more config
\* hits, more files, or with .specify or specs/ present where it was absent,
\* is never classified lower in greenfield < ongoing < brownfield.
C30_MonotoneInEvidence ==
    (verdict.returned /\ AutoOverride /\ cin.path_exists)
        => \A more \in MoreEvidence(cin.scan) :
              TypeRank(classify_project_state([cin EXCEPT !.scan = more]).project_type)
                  >= TypeRank(verdict.project_type)

\* C30 happens: a brownfield directory (20 commits) without .specify, for
\* which the same directory with .specify is a case of more evidence
C30_Witness ==
    /\ verdict.returned
    /\ AutoOverride
    /\ cin.path_exists
    /\ cin.scan.git_commits = 20
    /\ cin.scan.file_count = 3
    /\ ~cin.scan.has_specify
    /\ verdict.project_type = "brownfield"
    /\ [cin.scan EXCEPT !.has_specify = TRUE] \in MoreEvidence(cin.scan) \ {cin.scan}


(***************************************************************************)
(* The refresh callback (C24), checked under SpecTracker.                  *)
(***************************************************************************)
\* the tracker call just made changes the ledger by its contract: any
\* start, complete, error or skip, and an add of a key not yet registered
MutatingCall ==
    /\ ncalls' = ncalls + 1
    /\ lastCall'.op \in UpdateOps \/ (lastCall'.op = "add" /\ lastCall'.key \notin StepKeys(steps))

\* C24: with a callback attached, every mutating tracker call invokes it
\* once, after the change, so that it sees the updated ledger; whether the
\* callback returns or raises, the change is in the ledger and no exception
\* leaves the tracker call.
C24_RefreshAfterMutation ==
    [][(MutatingCall /\ refresh.cb # "none")
         => /\ refresh'.calls = refresh.calls + 1
            /\ refresh'.seen = steps'
            /\ lastCall'.key \in StepKeys(steps')
            /\ lastCall'.op \in UpdateOps => StatusOf(steps', lastCall'.key) = lastCall'.op
            /\ ~refresh'.escaped]_vars

\* C24 happens: a raising callback was invoked by start on a registered
\* step, saw the step running, and the call returned
C24_Witness ==
    /\ refresh.cb = "raises"
    /\ refresh.calls >= 2
    /\ lastCall.op = "running"
    /\ StatusOf(steps, lastCall.key) = "running"
    /\ refresh.seen = steps
    /\ ~refresh.escaped


(***************************************************************************)
(* What init shows of a run (C21, C23, C28), checked under Spec with the   *)
(* call on line 1434 entered with init's tracker.                          *)
(***************************************************************************)
\* the steps init completed before the call
PreSteps == {"precheck", "ai-select", "script-select", "classification"}

\* the steps that were complete when step `at` failed
CompletedBefore(at) ==
    CASE at = "fetch" -> PreSteps
      [] at = "download" -> PreSteps \cup {"fetch"}
      [] at = "extract" -> PreSteps \cup {"fetch", "download"}
      [] at = "local-copy" -> PreSteps

\* the words by which a panel names a step
StepWords(at) ==
    CASE at = "fetch" -> {"Fetch Error"}
      [] at = "download" -> {"Download Error"}
      [] at = "extract" -> {"Extraction Error"}
      [] at = "local-copy" -> {"Failed to copy local templates: "}

PanelWords(p) == {p.title} \cup {p.body[i] : i \in 1..Len(p.body)}

====
